---- MODULE Spec2Model ----
(***************************************************************************)
(* Model of the Discop steganography API server (src/api_server.py):       *)
(* the shared model/tokenizer singleton, the lock _MODEL_LOCK, the         *)
(* operation counter, the reload strategy and the request handlers         *)
(* encode, decode, health, manual_reload and manual_reset, run by          *)
(* concurrent worker threads.                                              *)
(*                                                                         *)
(* Optional values are sequences: <<>> is None and <<v>> is the value v.   *)
(* Seed values are tagged, [t |-> "none"|"int"|"bytes"|"str", v |-> seq].  *)
(***************************************************************************)
EXTENDS Integers, Sequences, FiniteSets, TLC

\* ------------------------------------------------------------------ bounds
NumWorkers == 2
MaxRequests == 2
MaxSeqRequests == 3
MaxCycleRequests == 4
MaxAuthRequests == 3
MaxInterval == 2
MaxSeedLen == 3
MaxSeedBytes == 2
MaxTextLen == 3
MaxBitLen == 9

Workers == 1..NumWorkers

\* ------------------------------------------------- globals of api_server.py
VARIABLES
  MODEL,               \* _MODEL: None, an instance id, or Unbound after `del`
  TOKENIZER,           \* _TOKENIZER: likewise
  OPERATION_COUNTER,   \* _OPERATION_COUNTER
  MODEL_LOCK,          \* _MODEL_LOCK: 0 when free, else the worker holding it
  RELOAD_STRATEGY,     \* RELOAD_STRATEGY, fixed at startup
  RELOAD_EVERY_N_OPS,  \* RELOAD_EVERY_N_OPS, fixed at startup
  API_KEY,             \* API_KEY, fixed at startup: None or a string
  heap,                \* Settings objects: heap[BaseRef] is _BASE_SETTINGS,
                       \* heap[w] the object worker w's deepcopy allocates
  pc,                  \* position of each worker in its handler
  req,                 \* the request each worker is serving
  loc,                 \* the handler's local variables
  resp,                \* the response (or error) of the finished request
  \* history variables, read by the properties only
  inCodec,             \* workers between a codec call and its return
  trace,               \* the steps the current request has taken, in order
  built,               \* number of model/tokenizer instances constructed
  started,             \* number of requests accepted so far
  nextTicket,          \* number of lock acquisitions so far
  produced,            \* <<ticket, counter value>> of every increment
  base0,               \* the value of _BASE_SETTINGS at startup
  scenario,            \* the workload explored, see Scenarios
  call,                \* a helper function applied on its own: its name,
                       \* its arguments and, once it has returned, its result
  double,              \* the codec double: what each encode_text call embedded
  client               \* the last encode exchange the round-trip client saw

vars == <<MODEL, TOKENIZER, OPERATION_COUNTER, MODEL_LOCK, RELOAD_STRATEGY,
          RELOAD_EVERY_N_OPS, heap, pc, req, loc, resp, inCodec, trace,
          built, started, nextTicket, produced, base0, scenario, call,
          double, client, API_KEY>>

\* ------------------------------------------------------- values and helpers
None == 0
Unbound == -1
BaseRef == 0
DEFAULT_CONTEXT == "We were both young when I first saw you, I close my eyes and the flashback starts."

Max(a, b) == IF a >= b THEN a ELSE b
Min(a, b) == IF a <= b THEN a ELSE b
IsNone(o) == o = <<>>
Val(o) == o[1]

SeedNone == [t |-> "none", v |-> <<>>]
SeedInt(n) == [t |-> "int", v |-> <<n>>]

\* character codes used by the seed strings
IsSpace(c) == c \in {9, 10, 11, 12, 13, 28, 29, 30, 31, 32, 133, 160}
PLUS == 43
MINUS == 45
UNDERSCORE == 95
IsDigit(c) == c >= 48 /\ c <= 57

\* ------------------------------------------------------------ pure functions
RECURSIVE Bin(_)
\* the binary digits of n without leading zeros ("0" for 0), as format(n, "b")
Bin(n) == IF n < 2 THEN <<n>> ELSE Bin(n \div 2) \o <<n % 2>>

RECURSIVE Zeros(_)
Zeros(k) == IF k <= 0 THEN <<>> ELSE <<0>> \o Zeros(k - 1)

\* mutant of Format08b: the digits are not padded to eight
Format08b_unpadded(c) == Bin(c)

\* f"{ord(ch):08b}": zero-padded to a minimum width of 8
Format08b(c) == Zeros(8 - Len(Bin(c))) \o Bin(c)

RECURSIVE text_to_bits(_)
text_to_bits(text) ==
  IF text = <<>> THEN <<>>
  ELSE Format08b(Head(text)) \o text_to_bits(Tail(text))

RECURSIVE BitsValue(_)
\* int(byte, 2)
BitsValue(bits) ==
  IF bits = <<>> THEN 0
  ELSE 2 * BitsValue(SubSeq(bits, 1, Len(bits) - 1)) + bits[Len(bits)]

RECURSIVE bits_to_text_padded(_)
\* mutant of bits_to_text: a trailing partial group is converted as well
bits_to_text_padded(bits) ==
  IF bits = <<>> THEN <<>>
  ELSE <<BitsValue(SubSeq(bits, 1, Min(8, Len(bits))))>>
         \o bits_to_text_padded(SubSeq(bits, 9, Len(bits)))

RECURSIVE bits_to_text(_)
bits_to_text(bits) ==
  IF Len(bits) < 8 THEN <<>>
  ELSE <<BitsValue(SubSeq(bits, 1, 8))>>
         \o bits_to_text(SubSeq(bits, 9, Len(bits)))

\* mutant of suggest_length: the minimum of 32 tokens is not applied
suggest_length_unfloored(bit_len) == ((5 * bit_len + 17) \div 18) + 8

\* math.ceil(bit_len / 3.6) is (5 * bit_len + 17) div 18 on the integers
suggest_length(bit_len) == Max(32, ((5 * bit_len + 17) \div 18) + 8)

RECURSIVE BytesValue_little(_)
\* mutant of BytesValue: the bytes are read in little-endian order
BytesValue_little(bs) ==
  IF bs = <<>> THEN 0
  ELSE Head(bs) + 256 * BytesValue_little(Tail(bs))

RECURSIVE BytesValue(_)
\* int.from_bytes(value, byteorder="big")
BytesValue(bs) ==
  IF bs = <<>> THEN 0
  ELSE 256 * BytesValue(SubSeq(bs, 1, Len(bs) - 1)) + bs[Len(bs)]

RECURSIVE Strip(_)
Strip(s) ==
  IF s = <<>> THEN s
  ELSE IF IsSpace(Head(s)) THEN Strip(Tail(s))
  ELSE IF IsSpace(s[Len(s)]) THEN Strip(SubSeq(s, 1, Len(s) - 1))
  ELSE s

RECURSIVE DigitsOk(_, _)
\* digits with single underscores between them, as int(s, 10) accepts
DigitsOk(s, afterDigit) ==
  IF s = <<>> THEN afterDigit
  ELSE IF IsDigit(Head(s)) THEN DigitsOk(Tail(s), TRUE)
  ELSE IF Head(s) = UNDERSCORE /\ afterDigit THEN
         Tail(s) # <<>> /\ IsDigit(Head(Tail(s))) /\ DigitsOk(Tail(s), FALSE)
  ELSE FALSE

RECURSIVE DigitsValue(_, _)
DigitsValue(s, acc) ==
  IF s = <<>> THEN acc
  ELSE IF Head(s) = UNDERSCORE THEN DigitsValue(Tail(s), acc)
  ELSE DigitsValue(Tail(s), 10 * acc + (Head(s) - 48))

HasSign(s) == s # <<>> /\ Head(s) \in {PLUS, MINUS}
Unsigned(s) == IF HasSign(s) THEN Tail(s) ELSE s
\* int(s, 10) raises ValueError exactly when ParseOk is false
ParseOk(s) == DigitsOk(Unsigned(s), FALSE)
ParseInt(s) ==
  IF HasSign(s) /\ Head(s) = MINUS
  THEN 0 - DigitsValue(Unsigned(s), 0)
  ELSE DigitsValue(Unsigned(s), 0)

\* _coerce_seed: [ok |-> FALSE] is HTTPException(400)
coerce_seed(value) ==
  IF value.t = "none" THEN [ok |-> TRUE, seed |-> SeedNone]
  ELSE IF value.t = "bytes" THEN
    IF Len(value.v) = 0 THEN [ok |-> TRUE, seed |-> SeedInt(0)]
    ELSE [ok |-> TRUE, seed |-> SeedInt(BytesValue(value.v))]
  ELSE IF value.t = "str" THEN
    IF Strip(value.v) = <<>> THEN [ok |-> TRUE, seed |-> SeedNone]
    ELSE IF ParseOk(Strip(value.v))
      THEN [ok |-> TRUE, seed |-> SeedInt(ParseInt(Strip(value.v)))]
      ELSE [ok |-> FALSE, seed |-> SeedNone]
  ELSE [ok |-> TRUE, seed |-> SeedInt(Val(value.v))]

\* mutant of apply_overrides: a null length in the override is written too
apply_overrides_keep_none(settings, overrides) ==
  IF IsNone(overrides) THEN settings
  ELSE LET o == Val(overrides) IN
    [settings EXCEPT
       !.algo = IF IsNone(o.algo) THEN @ ELSE Val(o.algo),
       !.temp = IF IsNone(o.temp) THEN @ ELSE Val(o.temp),
       !.top_p = IF IsNone(o.top_p) THEN @ ELSE Val(o.top_p),
       !.length = o.length,
       !.seed = IF IsNone(o.seed) THEN @
                ELSE coerce_seed(SeedInt(Val(o.seed))).seed]

\* _apply_overrides: the fields model_dump(exclude_none=True) keeps are set
apply_overrides(settings, overrides) ==
  IF IsNone(overrides) THEN settings
  ELSE LET o == Val(overrides) IN
    [settings EXCEPT
       !.algo = IF IsNone(o.algo) THEN @ ELSE Val(o.algo),
       !.temp = IF IsNone(o.temp) THEN @ ELSE Val(o.temp),
       !.top_p = IF IsNone(o.top_p) THEN @ ELSE Val(o.top_p),
       !.length = IF IsNone(o.length) THEN @ ELSE o.length,
       !.seed = IF IsNone(o.seed) THEN @
                ELSE coerce_seed(SeedInt(Val(o.seed))).seed]

\* --------------------------------------------------------- bounded inputs
\* Two workloads are explored: "concurrent" (every worker serves requests
\* drawn from a small set) and "sequential" (one worker, a wider set).
Scenarios == { "concurrent", "sequential", "roundtrip", "functions", "auth" }

\* text_default_settings comes from config.py; two startup values are tried
BaseSettingsConcurrent ==
  { [algo |-> "Discop", temp |-> 10, top_p |-> 92, length |-> <<>>,
     seed |-> [t |-> "bytes", v |-> <<1, 0>>], device |-> "cpu"] }
BaseSettingsSequential ==
  BaseSettingsConcurrent \cup
  { [algo |-> "Discop", temp |-> 10, top_p |-> 92, length |-> <<100>>,
     seed |-> SeedNone, device |-> "cpu"] }

NoOverrideFields ==
  [algo |-> <<>>, temp |-> <<>>, top_p |-> <<>>, length |-> <<>>, seed |-> <<>>]

\* Encode requests: messages are sequences of code points ("" , "AB", two
\* messages with code points above 255, of 35 and 36 bits, and twelve "A",
\* 96 bits, for which the suggested length exceeds the minimum)
EncReq(m, c, o) ==
  [kind |-> "encode", message |-> m, context |-> c, settings |-> o]
LongMessage == [i \in 1..12 |-> 65]
ShortLength == <<[NoOverrideFields EXCEPT !.length = <<1>>]>>
SeedAndTopP == <<[NoOverrideFields EXCEPT !.seed = <<7>>, !.top_p = <<90>>]>>

EncodeRequestsConcurrent ==
  { EncReq(<<>>, <<>>, <<>>),
    EncReq(<<65, 66>>, <<>>, SeedAndTopP) }
EncodeRequestsSequential ==
  EncodeRequestsConcurrent \cup
  { EncReq(<<65, 66>>, <<"ctx">>, <<>>),
    EncReq(<<65, 66>>, <<"">>, ShortLength),
    EncReq(<<65, 256, 256, 256>>, <<>>, ShortLength),
    EncReq(<<256, 256, 256, 256>>, <<"ctx">>, ShortLength),
    EncReq(<<256, 256, 256, 256>>, <<"">>, <<>>),
    EncReq(LongMessage, <<"ctx">>, SeedAndTopP) }

DecReq(t, c, e, o) ==
  [kind |-> "decode", stego_text |-> t, context |-> c, expected_bits |-> e,
   settings |-> o]
DecodeRequestsConcurrent ==
  { DecReq("", "ctx", <<>>, <<>>),
    DecReq("stego", "ctx", <<16>>, ShortLength) }
DecodeRequestsSequential ==
  DecodeRequestsConcurrent \cup
  { DecReq("stego", "", <<>>, <<>>),
    DecReq("stego", "ctx", <<8>>, SeedAndTopP) }

\* The round-trip client (test_single_cycle): it encodes a message of
\* single-byte characters with a context and then decodes the stego text it
\* got back, with the same context, the settings of the encode response and
\* expected_bits = payload_bits.
\* lines 27-33: the encode payload carries the message, the context and
\* settings that set the seed to the cycle number and nothing else
encode_payload(cycle_num, message, context) ==
  EncReq(message, <<context>>,
         <<[NoOverrideFields EXCEPT !.seed = <<cycle_num>>]>>)
\* the cycles run: "AB" with a context and with the empty context, and one
\* character of code 255
EncodeRequestsRoundTrip ==
  { encode_payload(7, <<65, 66>>, "ctx"),
    encode_payload(1, <<65, 66>>, ""),
    encode_payload(2, <<255>>, "ctx") }
ResponseSettings(response) ==
  LET st == response.settings IN
  [algo |-> <<st.algo>>, temp |-> <<st.temp>>, top_p |-> <<st.top_p>>,
   length |-> st.length,
   seed |-> IF st.seed.t = "none" THEN <<>> ELSE st.seed.v]
DecodeRequestsRoundTrip(cl) ==
  IF cl.response.code # 200 THEN {}
  ELSE { DecReq(cl.response.stego_text, Val(cl.request.context),
                <<cl.response.payload_bits>>,
                <<ResponseSettings(cl.response)>>) }

\* what the codec may report as embedded: short, exact or more
NBitsChoicesConcurrent(n) == { n - 1, n }
NBitsChoicesSequential(n) == { 0, n - 1, n, n + 1 }
\* what decode_text may recover
RecoveredChoicesConcurrent == { <<0, 1, 0>>, text_to_bits(<<65, 66>>) }
RecoveredChoicesSequential ==
  RecoveredChoicesConcurrent \cup
  { <<>>, text_to_bits(<<65, 66>>) \o <<1>> }

Strategies == { "none", "reset", "reload", "periodic" }

NoRequest == [kind |-> "none"]
\* the request r as it arrives, with the X-API-Key header h (None if absent)
WithKey(r, h) ==
  [f \in DOMAIN r \cup {"provided_key"} |->
     IF f = "provided_key" THEN h ELSE r[f]]
NoRef == -2
NoLocals == [settings |-> NoRef, message_bits |-> <<>>, context |-> "",
             n_bits |-> <<>>, stego_object |-> "", calls |-> <<>>,
             returns |-> <<>>, token_ids |-> <<>>,
             recovered_bits |-> <<>>, ticket |-> 0, observed |-> <<>>]
NoResponse == [code |-> 0]
NoCall == [fn |-> "none"]
NoClient == [request |-> NoRequest, response |-> NoResponse]
NoSettings == [algo |-> "", temp |-> 0, top_p |-> 0, length |-> <<>>,
               seed |-> SeedNone, device |-> ""]

\* ---------------------------------------------------------- authentication
\* line 124: the key in the source; line 140 replaces it by DISCOP_API_KEY
\* when that is set (possibly to the empty string); None is what the comment
\* of line 124 implies for a server without authentication
DEFAULT_API_KEY == "jnu@fenglab"
ApiKeys == { <<>>, <<"">>, <<DEFAULT_API_KEY>> }

\* the X-API-Key header of a request: absent, empty, the default key, another
HeaderChoices == { <<>>, <<"">>, <<DEFAULT_API_KEY>>, <<"wrong">> }

\* mutant of verify_api_key: any non-empty header is accepted
verify_api_key_any(provided_key) ==
  IF IsNone(API_KEY) THEN TRUE
  ELSE ~(IsNone(provided_key) \/ Val(provided_key) = "")

\* _verify_api_key: TRUE when it returns, FALSE when it raises
\* UnauthorizedError
verify_api_key(provided_key) ==
  IF IsNone(API_KEY) THEN TRUE
  ELSE ~(\/ IsNone(provided_key) \/ Val(provided_key) = ""
         \/ Val(provided_key) # Val(API_KEY))

\* ------------------------------------------------------------------- Init
DefaultInterval == 10

InitFor(sc) ==
  /\ MODEL = None
  /\ TOKENIZER = None
  /\ OPERATION_COUNTER = 0
  /\ MODEL_LOCK = 0
  /\ scenario = sc
  /\ \/ /\ RELOAD_STRATEGY \in Strategies \ {"periodic"}
        /\ RELOAD_EVERY_N_OPS = DefaultInterval
     \/ /\ RELOAD_STRATEGY = "periodic"
        /\ RELOAD_EVERY_N_OPS \in 1..MaxInterval
  /\ \E b \in IF sc \in {"concurrent", "auth"} THEN BaseSettingsConcurrent
               ELSE BaseSettingsSequential :
       /\ heap = [r \in {BaseRef} \cup Workers |->
                    IF r = BaseRef THEN b ELSE NoSettings]
       /\ base0 = b
  /\ pc = [w \in Workers |-> "idle"]
  /\ req = [w \in Workers |-> NoRequest]
  /\ loc = [w \in Workers |-> NoLocals]
  /\ resp = [w \in Workers |-> NoResponse]
  /\ inCodec = {}
  /\ trace = [w \in Workers |-> <<>>]
  /\ built = 0
  /\ started = 0
  /\ nextTicket = 0
  /\ produced = <<>>
  /\ call = NoCall
  /\ double = <<>>
  /\ client = NoClient
  /\ API_KEY \in IF sc = "auth" THEN ApiKeys ELSE {<<DEFAULT_API_KEY>>}

Init == InitFor("concurrent")
InitSequential == InitFor("sequential")
InitRoundTrip == InitFor("roundtrip")
InitAuth == InitFor("auth")

\* the workers that serve requests, and the requests they may be given
Serving(w) ==
  /\ pc[w] = "idle"
  /\ IF scenario = "sequential" THEN w = 1 /\ started < MaxSeqRequests
     ELSE IF scenario = "roundtrip" THEN w = 1 /\ started < MaxCycleRequests
     ELSE IF scenario = "auth" THEN w = 1 /\ started < MaxAuthRequests
     ELSE started < MaxRequests
EncodeRequests ==
  IF scenario = "sequential" THEN EncodeRequestsSequential
  ELSE IF scenario = "roundtrip" THEN EncodeRequestsRoundTrip
  ELSE EncodeRequestsConcurrent
DecodeRequests ==
  IF scenario = "sequential" THEN DecodeRequestsSequential
  ELSE IF scenario = "roundtrip" THEN DecodeRequestsRoundTrip(client)
  ELSE DecodeRequestsConcurrent
NBitsChoices(n) ==
  IF scenario = "sequential" THEN NBitsChoicesSequential(n)
  ELSE NBitsChoicesConcurrent(n)
RecoveredChoices ==
  IF scenario = "sequential" THEN RecoveredChoicesSequential
  ELSE RecoveredChoicesConcurrent

\* ------------------------------------------------------- shared fragments
cfgVars ==
  <<RELOAD_STRATEGY, RELOAD_EVERY_N_OPS, API_KEY, base0, scenario, call>>
\* what no handler step changes but the codec double's and the client's own
envVars == <<cfgVars, double, client>>

Goto(w, p) == pc' = [pc EXCEPT ![w] = p]
Log(w, e) == trace' = [trace EXCEPT ![w] = Append(@, e)]
Respond(w, r) == resp' = [resp EXCEPT ![w] = r]
Error(code, detail) == [code |-> code, detail |-> detail]

\* the keys the clients send: the test clients send the configured key
\* (test_multi_cycle.py lines 16-17); the "auth" workload tries the others
ProvidedKeys == IF scenario = "auth" THEN HeaderChoices ELSE {API_KEY}

\* the dependency _verify_api_key raised: the handler is not entered and the
\* request r is answered 401
Unauthorized(w, r) ==
  /\ req' = [req EXCEPT ![w] = r]
  /\ started' = started + 1
  /\ trace' = [trace EXCEPT ![w] = <<>>]
  /\ Goto(w, "done")
  /\ Respond(w, Error(401, "Invalid or missing API key"))

\* mutant of deepcopy: the settings are aliased instead of copied
deepcopy_alias(obj, w) == obj

\* copy.deepcopy(obj): the reference of the fresh object, owned by worker w
deepcopy(obj, w) == w

\* mutant of lock_acquire: the lock is taken without waiting for it
lock_acquire_unguarded(w) == MODEL_LOCK' = w

\* _MODEL_LOCK.__enter__: blocks until the lock is free
lock_acquire(w) == MODEL_LOCK = 0 /\ MODEL_LOCK' = w

\* mutant of lock_release: leaving the with block keeps the lock
lock_release_kept(w) == UNCHANGED MODEL_LOCK

\* _MODEL_LOCK.__exit__: runs on every exit of the with block
lock_release(w) == MODEL_LOCK' = 0

\* mutant of raise_in_lock: acquire/release by hand, no release on an error
raise_in_lock_leaky(w, code, detail) ==
  /\ UNCHANGED MODEL_LOCK
  /\ Goto(w, "done")
  /\ Respond(w, Error(code, detail))

\* an exception leaving the with block: the lock is released on the way out
raise_in_lock(w, code, detail) ==
  /\ lock_release(w)
  /\ Goto(w, "done")
  /\ Respond(w, Error(code, detail))

\* an exception outside the with block
raise_outside(w, code, detail) ==
  /\ Goto(w, "done")
  /\ Respond(w, Error(code, detail))

\* mutant of ensure_model_loaded: the model is loaded on every call
ensure_model_loaded_always(w, tokPc, next) ==
  IF MODEL = Unbound \/ (MODEL # None /\ TOKENIZER = Unbound) THEN
    /\ raise_in_lock(w, 500, "NameError")
    /\ Log(w, "ensure_failed")
    /\ UNCHANGED <<MODEL, TOKENIZER, built>>
  ELSE
    /\ MODEL' = built + 1
    /\ built' = built + 1
    /\ Goto(w, tokPc)
    /\ UNCHANGED <<TOKENIZER, resp, MODEL_LOCK, trace>>

\* mutant of ensure_model_loaded: nothing is loaded
ensure_model_loaded_skipped(w, tokPc, next) ==
  /\ Log(w, "ensure")
  /\ Goto(w, next)
  /\ UNCHANGED <<MODEL, TOKENIZER, built, resp, MODEL_LOCK>>

\* _ensure_model_loaded up to the assignment of line 85: the test of line
\* 84 (a deleted global raises NameError) and `_MODEL = get_model(...)`,
\* which may raise; the call of get_tokenizer follows at `tokPc`; with both
\* objects present the function returns and the handler continues at `next`
ensure_model_loaded(w, tokPc, next) ==
  IF MODEL = Unbound \/ (MODEL # None /\ TOKENIZER = Unbound) THEN
    /\ raise_in_lock(w, 500, "NameError")
    /\ Log(w, "ensure_failed")
    /\ UNCHANGED <<MODEL, TOKENIZER, built>>
  ELSE IF MODEL = None \/ TOKENIZER = None THEN
    \/ /\ MODEL' = built + 1
       /\ built' = built + 1
       /\ Goto(w, tokPc)
       /\ UNCHANGED <<TOKENIZER, resp, MODEL_LOCK, trace>>
    \/ /\ raise_in_lock(w, 500, "get_model failed")
       /\ Log(w, "ensure_failed")
       /\ UNCHANGED <<MODEL, TOKENIZER, built>>
  ELSE
    /\ Log(w, "ensure")
    /\ Goto(w, next)
    /\ UNCHANGED <<MODEL, TOKENIZER, built, resp, MODEL_LOCK>>

\* line 86: `_TOKENIZER = get_tokenizer(...)`, which may raise, and the
\* return of _ensure_model_loaded
ensure_get_tokenizer(w, next) ==
  \/ /\ TOKENIZER' = built + 1
     /\ built' = built + 1
     /\ Log(w, "ensure")
     /\ Goto(w, next)
     /\ UNCHANGED <<MODEL, resp, MODEL_LOCK>>
  \/ /\ raise_in_lock(w, 500, "get_tokenizer failed")
     /\ Log(w, "ensure_failed")
     /\ UNCHANGED <<MODEL, TOKENIZER, built>>

\* mutant of reset_model_state: an absent model is constructed
reset_model_state_loading(w, next) ==
  IF MODEL = Unbound THEN
    /\ raise_in_lock(w, 500, "NameError")
    /\ Log(w, "reset_failed")
    /\ UNCHANGED <<MODEL, TOKENIZER, built>>
  ELSE
    /\ MODEL' = IF MODEL = None THEN built + 1 ELSE MODEL
    /\ built' = IF MODEL = None THEN built + 1 ELSE built
    /\ Log(w, "reset")
    /\ Goto(w, next)
    /\ UNCHANGED <<TOKENIZER, resp, MODEL_LOCK>>

\* _reset_model_state: reseeds the generators and resets the model in place
reset_model_state(w, next) ==
  IF MODEL = Unbound THEN
    /\ raise_in_lock(w, 500, "NameError")
    /\ Log(w, "reset_failed")
    /\ UNCHANGED <<MODEL, TOKENIZER, built>>
  ELSE
    /\ Log(w, "reset")
    /\ Goto(w, next)
    /\ UNCHANGED <<MODEL, TOKENIZER, built, resp, MODEL_LOCK>>

\* _reload_model, first half: `del _MODEL`, `del _TOKENIZER`
reload_model_discard(w, next) ==
  IF MODEL = Unbound THEN
    /\ raise_in_lock(w, 500, "NameError")
    /\ Log(w, "reload_failed")
    /\ UNCHANGED <<MODEL, TOKENIZER, built>>
  ELSE IF TOKENIZER = Unbound THEN
    /\ MODEL' = IF MODEL # None THEN Unbound ELSE MODEL
    /\ raise_in_lock(w, 500, "NameError")
    /\ Log(w, "reload_failed")
    /\ UNCHANGED <<TOKENIZER, built>>
  ELSE
    /\ MODEL' = IF MODEL # None THEN Unbound ELSE MODEL
    /\ TOKENIZER' = IF TOKENIZER # None THEN Unbound ELSE TOKENIZER
    /\ Log(w, "reload")
    /\ Goto(w, next)
    /\ UNCHANGED <<built, resp, MODEL_LOCK>>

\* mutant of reload_model_construct: the tokenizer is not constructed again
reload_model_construct_model_only(w, tokPc, next) ==
  /\ MODEL' = built + 1
  /\ built' = built + 1
  /\ Log(w, "reloaded")
  /\ Goto(w, next)
  /\ UNCHANGED <<TOKENIZER, resp, MODEL_LOCK>>

\* _reload_model, line 115: `_MODEL = get_model(...)`, which may raise; the
\* call of get_tokenizer follows at `tokPc`
reload_model_construct(w, tokPc, next) ==
  \/ /\ MODEL' = built + 1
     /\ built' = built + 1
     /\ Goto(w, tokPc)
     /\ UNCHANGED <<TOKENIZER, resp, MODEL_LOCK, trace>>
  \/ /\ raise_in_lock(w, 500, "get_model failed")
     /\ Log(w, "reload_failed")
     /\ UNCHANGED <<MODEL, TOKENIZER, built>>

\* _reload_model, line 116: `_TOKENIZER = get_tokenizer(...)`, which may
\* raise, and the return of _reload_model
reload_get_tokenizer(w, next) ==
  \/ /\ TOKENIZER' = built + 1
     /\ built' = built + 1
     /\ Log(w, "reloaded")
     /\ Goto(w, next)
     /\ UNCHANGED <<MODEL, resp, MODEL_LOCK>>
  \/ /\ raise_in_lock(w, 500, "get_tokenizer failed")
     /\ Log(w, "reload_failed")
     /\ UNCHANGED <<MODEL, TOKENIZER, built>>

\* mutant of apply_strategy: every strategy but reload falls back to a reset
apply_strategy_default_reset(w, reloadPc, next) ==
  IF RELOAD_STRATEGY = "reload" THEN reload_model_discard(w, reloadPc)
  ELSE IF RELOAD_STRATEGY = "periodic"
          /\ OPERATION_COUNTER % RELOAD_EVERY_N_OPS = 0
    THEN reload_model_discard(w, reloadPc)
  ELSE reset_model_state(w, next)

\* mutant of apply_strategy: the periodic test is off by one
apply_strategy_off_by_one(w, reloadPc, next) ==
  IF RELOAD_STRATEGY = "reload" THEN reload_model_discard(w, reloadPc)
  ELSE IF RELOAD_STRATEGY = "reset" THEN reset_model_state(w, next)
  ELSE IF RELOAD_STRATEGY = "periodic"
          /\ (OPERATION_COUNTER + 1) % RELOAD_EVERY_N_OPS = 0
    THEN reload_model_discard(w, reloadPc)
  ELSE
    /\ Goto(w, next)
    /\ UNCHANGED <<MODEL, TOKENIZER, built, resp, MODEL_LOCK, trace>>

\* the strategy block run before the codec call (the same in both handlers)
apply_strategy(w, reloadPc, next) ==
  IF RELOAD_STRATEGY = "reload" THEN reload_model_discard(w, reloadPc)
  ELSE IF RELOAD_STRATEGY = "reset" THEN reset_model_state(w, next)
  ELSE IF RELOAD_STRATEGY = "periodic"
          /\ OPERATION_COUNTER % RELOAD_EVERY_N_OPS = 0
    THEN reload_model_discard(w, reloadPc)
  ELSE
    /\ Goto(w, next)
    /\ UNCHANGED <<MODEL, TOKENIZER, built, resp, MODEL_LOCK, trace>>

\* the lock is taken: the request gets the next place in the lock order
Acquired(w, next) ==
  /\ lock_acquire(w)
  /\ nextTicket' = nextTicket + 1
  /\ loc' = [loc EXCEPT ![w].ticket = nextTicket + 1]
  /\ Log(w, "acquire")
  /\ Goto(w, next)

\* mutant of Increment: one count per codec call instead of per operation
Increment_per_call(w, next) ==
  /\ OPERATION_COUNTER' = OPERATION_COUNTER + Len(loc[w].calls)
  /\ produced' = Append(produced, <<loc[w].ticket,
                                    OPERATION_COUNTER + Len(loc[w].calls)>>)
  /\ Log(w, "incr")
  /\ Goto(w, next)

\* mutant of Increment: an encode request that embedded too little is not
\* counted, as if the increment came after the capacity check
Increment_on_success(w, next) ==
  LET short == /\ req[w].kind = "encode"
               /\ Val(loc[w].n_bits) < Len(loc[w].message_bits)
  IN
  /\ OPERATION_COUNTER' = IF short THEN OPERATION_COUNTER
                          ELSE OPERATION_COUNTER + 1
  /\ produced' = IF short THEN produced
                 ELSE Append(produced, <<loc[w].ticket, OPERATION_COUNTER + 1>>)
  /\ Log(w, "incr")
  /\ Goto(w, next)

\* _OPERATION_COUNTER += 1
Increment(w, next) ==
  /\ OPERATION_COUNTER' = OPERATION_COUNTER + 1
  /\ produced' = Append(produced, <<loc[w].ticket, OPERATION_COUNTER + 1>>)
  /\ Log(w, "incr")
  /\ Goto(w, next)

\* the arguments a codec call is made with
CallArgs(w) ==
  [model |-> MODEL, tokenizer |-> TOKENIZER, context |-> loc[w].context,
   settings |-> heap[loc[w].settings]]

\* encode_text / decode_text is entered
CodecCall(w, next) ==
  /\ inCodec' = inCodec \cup {w}
  /\ loc' = [loc EXCEPT ![w].calls = Append(@, CallArgs(w))]
  /\ Log(w, "codec")
  /\ Goto(w, next)

\* _TOKENIZER.encode(text, add_special_tokens=False): no token for the empty
\* text, else tokens that stand for the text
Tokenize(text) == IF text = "" THEN <<>> ELSE <<text>>

\* The codec: encode_text and decode_text are collaborators whose results
\* are not determined here, except in the round-trip workload, where a codec
\* double stands in: its decode returns the bits its encode embedded when it
\* is given the tokens of the text that encode produced and the same context
\* and settings, and anything otherwise.
StegoObject(k) == "stego" \o ToString(k)

\* encode_text returns: n bits were embedded
encode_text_returns(w, n) ==
  LET doubled == scenario = "roundtrip"
      text == IF doubled THEN StegoObject(Len(double) + 1) ELSE "stego"
      bits == loc[w].message_bits
  IN
  /\ loc' = [loc EXCEPT ![w].n_bits = <<n>>,
                         ![w].returns = Append(@, n),
                         ![w].stego_object = text]
  /\ double' = IF doubled
                THEN Append(double,
                            [tokens |-> Tokenize(text),
                             context |-> loc[w].context,
                             settings |-> heap[loc[w].settings],
                             bits |-> SubSeq(bits, 1, Min(n, Len(bits)))])
                ELSE double
  /\ Log(w, "ret")

\* what decode_text may return
decode_text_results(w) ==
  LET hits == { i \in DOMAIN double :
                  /\ double[i].tokens = loc[w].token_ids
                  /\ double[i].context = loc[w].context
                  /\ double[i].settings = heap[loc[w].settings] }
  IN IF hits = {} THEN RecoveredChoices
     ELSE { double[i].bits : i \in hits }

\* --------------------------------------------------------- _encode_impl
\* mutant of EmptyPayload: the message is not validated
EmptyPayload_unchecked(message_bits) == FALSE

\* line 266: not message_bits
EmptyPayload(message_bits) == message_bits = <<>>

\* lines 265-276: validation, private settings copy, length, context
encode_start(w) ==
  /\ Serving(w)
  /\ \E r0 \in EncodeRequests : \E h \in ProvidedKeys :
       LET r == WithKey(r0, h)
           m == r.message
           c == r.context
           o == r.settings
           message_bits == text_to_bits(m)
           ref == deepcopy(BaseRef, w)
           seeded == coerce_seed(heap[BaseRef].seed)
           copied == [heap[BaseRef] EXCEPT !.seed = seeded.seed]
           merged == apply_overrides(copied, o)
           sized == IF IsNone(merged.length) \/ Val(merged.length) <= 0
                    THEN [merged EXCEPT
                            !.length = <<suggest_length(Len(message_bits))>>]
                    ELSE merged
           context == IF IsNone(c) \/ Val(c) = "" THEN DEFAULT_CONTEXT
                      ELSE Val(c)
       IN
       IF ~verify_api_key(h) THEN
         /\ Unauthorized(w, r)
         /\ UNCHANGED <<heap, loc>>
       ELSE
         /\ req' = [req EXCEPT ![w] = r]
         /\ started' = started + 1
         /\ trace' = [trace EXCEPT ![w] = <<>>]
         /\ IF EmptyPayload(message_bits) THEN
              /\ raise_outside(w, 400, "Message must not be empty.")
              /\ UNCHANGED <<heap, loc>>
            ELSE IF ~seeded.ok THEN
              /\ raise_outside(w, 400, "settings.seed must be an integer.")
              /\ heap' = [heap EXCEPT ![ref] = heap[BaseRef]]
              /\ UNCHANGED loc
            ELSE
              /\ heap' = [heap EXCEPT ![ref] = sized]
              /\ loc' = [loc EXCEPT ![w] =
                           [NoLocals EXCEPT !.settings = ref,
                                            !.message_bits = message_bits,
                                            !.context = context]]
              /\ Goto(w, "enc_lock")
              /\ UNCHANGED resp
  /\ UNCHANGED <<MODEL, TOKENIZER, OPERATION_COUNTER, MODEL_LOCK, envVars,
                 inCodec, built, nextTicket, produced>>

\* line 278: with _MODEL_LOCK
encode_acquire(w) ==
  /\ pc[w] = "enc_lock"
  /\ Acquired(w, "enc_ensure")
  /\ UNCHANGED <<MODEL, TOKENIZER, OPERATION_COUNTER, envVars, heap, req,
                 resp, inCodec, built, started, produced>>

\* line 280
encode_ensure(w) ==
  /\ pc[w] = "enc_ensure"
  /\ ensure_model_loaded(w, "enc_ensure_tok", "enc_hygiene")
  /\ UNCHANGED <<OPERATION_COUNTER, envVars, heap, req, loc, inCodec,
                 started, nextTicket, produced>>

\* line 280, get_tokenizer of _ensure_model_loaded
encode_ensure_tokenizer(w) ==
  /\ pc[w] = "enc_ensure_tok"
  /\ ensure_get_tokenizer(w, "enc_hygiene")
  /\ UNCHANGED <<OPERATION_COUNTER, envVars, heap, req, loc, inCodec,
                 started, nextTicket, produced>>

\* lines 283-288
encode_hygiene(w) ==
  /\ pc[w] = "enc_hygiene"
  /\ apply_strategy(w, "enc_reload", "enc_call")
  /\ loc' = [loc EXCEPT ![w].observed = <<OPERATION_COUNTER>>]
  /\ UNCHANGED <<OPERATION_COUNTER, envVars, heap, req, inCodec,
                 started, nextTicket, produced>>

\* lines 284/288, second half of _reload_model
encode_reload(w) ==
  /\ pc[w] = "enc_reload"
  /\ reload_model_construct(w, "enc_reload_tok", "enc_call")
  /\ UNCHANGED <<OPERATION_COUNTER, envVars, heap, req, loc, inCodec,
                 started, nextTicket, produced>>

\* lines 284/288, get_tokenizer of _reload_model
encode_reload_tokenizer(w) ==
  /\ pc[w] = "enc_reload_tok"
  /\ reload_get_tokenizer(w, "enc_call")
  /\ UNCHANGED <<OPERATION_COUNTER, envVars, heap, req, loc, inCodec,
                 started, nextTicket, produced>>

\* line 290: encode_text is called
encode_call(w) ==
  /\ pc[w] = "enc_call"
  /\ CodecCall(w, "enc_ret")
  /\ UNCHANGED <<MODEL, TOKENIZER, OPERATION_COUNTER, MODEL_LOCK, envVars,
                 heap, req, resp, built, started, nextTicket, produced>>

\* line 290: encode_text returns output, or raises
encode_return(w) ==
  /\ pc[w] = "enc_ret"
  /\ inCodec' = inCodec \ {w}
  /\ \/ \E n \in NBitsChoices(Len(loc[w].message_bits)) :
          /\ encode_text_returns(w, n)
          /\ Goto(w, IF n < Len(loc[w].message_bits)
                     THEN "enc_retry" ELSE "enc_incr")
          /\ UNCHANGED <<resp, MODEL_LOCK>>
     \/ /\ raise_in_lock(w, 500, "encode_text failed")
        /\ Log(w, "raised")
        /\ UNCHANGED <<loc, double>>
  /\ UNCHANGED <<MODEL, TOKENIZER, OPERATION_COUNTER, cfgVars, client, heap,
                 req, built, started, nextTicket, produced>>

\* mutant of enlarged_length: the max with half the payload is forgotten
enlarged_length_step_only(length, payload) == length + 16

\* line 293: max(settings.length + 16, len(message_bits) // 2)
enlarged_length(length, payload) == Max(length + 16, payload \div 2)

\* lines 292-296: enlarge the length, reset again before the retry
encode_retry(w) ==
  /\ pc[w] = "enc_retry"
  /\ heap' = [heap EXCEPT ![loc[w].settings].length =
                <<enlarged_length(Val(@), Len(loc[w].message_bits))>>]
  /\ IF RELOAD_STRATEGY \in {"reload", "reset"}
       THEN reset_model_state(w, "enc_call2")
       ELSE /\ Goto(w, "enc_call2")
            /\ UNCHANGED <<MODEL, TOKENIZER, built, resp, MODEL_LOCK, trace>>
  /\ UNCHANGED <<OPERATION_COUNTER, envVars, req, loc, inCodec, started,
                 nextTicket, produced>>

\* line 297: the second encode_text call
encode_call_retry(w) ==
  /\ pc[w] = "enc_call2"
  /\ CodecCall(w, "enc_ret2")
  /\ UNCHANGED <<MODEL, TOKENIZER, OPERATION_COUNTER, MODEL_LOCK, envVars,
                 heap, req, resp, built, started, nextTicket, produced>>

\* mutant of encode_return_retry: `while` instead of `if`, retrying again
encode_return_retry_loop(w) ==
  /\ pc[w] = "enc_ret2"
  /\ inCodec' = inCodec \ {w}
  /\ \/ \E n \in NBitsChoices(Len(loc[w].message_bits)) :
          /\ encode_text_returns(w, n)
          /\ Goto(w, IF n < Len(loc[w].message_bits)
                     THEN "enc_retry" ELSE "enc_incr")
          /\ UNCHANGED <<resp, MODEL_LOCK>>
     \/ /\ raise_in_lock(w, 500, "encode_text failed")
        /\ Log(w, "raised")
        /\ UNCHANGED <<loc, double>>
  /\ UNCHANGED <<MODEL, TOKENIZER, OPERATION_COUNTER, cfgVars, client, heap,
                 req, built, started, nextTicket, produced>>

\* line 297: the second call returns, or raises
encode_return_retry(w) ==
  /\ pc[w] = "enc_ret2"
  /\ inCodec' = inCodec \ {w}
  /\ \/ \E n \in NBitsChoices(Len(loc[w].message_bits)) :
          /\ encode_text_returns(w, n)
          /\ Goto(w, "enc_incr")
          /\ UNCHANGED <<resp, MODEL_LOCK>>
     \/ /\ raise_in_lock(w, 500, "encode_text failed")
        /\ Log(w, "raised")
        /\ UNCHANGED <<loc, double>>
  /\ UNCHANGED <<MODEL, TOKENIZER, OPERATION_COUNTER, cfgVars, client, heap,
                 req, built, started, nextTicket, produced>>

\* line 300
encode_increment(w) ==
  /\ pc[w] = "enc_incr"
  /\ Increment(w, "enc_release")
  /\ UNCHANGED <<MODEL, TOKENIZER, MODEL_LOCK, envVars, heap, req, loc, resp,
                 inCodec, built, started, nextTicket>>

\* end of the with block
encode_release(w) ==
  /\ pc[w] = "enc_release"
  /\ lock_release(w)
  /\ Log(w, "release")
  /\ Goto(w, "enc_post")
  /\ UNCHANGED <<MODEL, TOKENIZER, OPERATION_COUNTER, envVars, heap, req, loc,
                 resp, inCodec, built, started, nextTicket, produced>>

\* mutant of EncodeResponse: the response reports the length of the first
\* codec call, not the one the retry enlarged
EncodeResponse_first_length(w) ==
  LET settings == heap[loc[w].settings] IN
  [code |-> 200,
   stego_text |-> loc[w].stego_object,
   embedded_bits |-> Val(loc[w].n_bits),
   payload_bits |-> Len(loc[w].message_bits),
   settings |-> [algo |-> settings.algo, temp |-> settings.temp,
                 top_p |-> settings.top_p,
                 length |-> loc[w].calls[1].settings.length,
                 seed |-> coerce_seed(settings.seed).seed]]

\* the response body of lines 310-327
EncodeResponse(w) ==
  LET settings == heap[loc[w].settings] IN
  [code |-> 200,
   stego_text |-> loc[w].stego_object,
   embedded_bits |-> Val(loc[w].n_bits),
   payload_bits |-> Len(loc[w].message_bits),
   settings |-> [algo |-> settings.algo, temp |-> settings.temp,
                 top_p |-> settings.top_p, length |-> settings.length,
                 seed |-> coerce_seed(settings.seed).seed]]

\* mutant of encode_finish: the capacity check after the lock is missing
encode_finish_unchecked(w) ==
  /\ pc[w] = "enc_post"
  /\ Goto(w, "done")
  /\ Respond(w, EncodeResponse(w))
  /\ UNCHANGED <<MODEL, TOKENIZER, OPERATION_COUNTER, MODEL_LOCK, envVars,
                 heap, req, loc, inCodec, trace, built, started, nextTicket,
                 produced>>

\* lines 302-327: capacity error or the response
encode_finish(w) ==
  /\ pc[w] = "enc_post"
  /\ IF Val(loc[w].n_bits) < Len(loc[w].message_bits) THEN
       raise_outside(w, 422, "Failed to embed the entire payload.")
     ELSE
       /\ Goto(w, "done")
       /\ Respond(w, EncodeResponse(w))
  /\ UNCHANGED <<MODEL, TOKENIZER, OPERATION_COUNTER, MODEL_LOCK, envVars,
                 heap, req, loc, inCodec, trace, built, started, nextTicket,
                 produced>>

\* --------------------------------------------------------- _decode_impl
\* lines 333-335: private settings copy
decode_start(w) ==
  /\ Serving(w)
  /\ \E r0 \in DecodeRequests : \E h \in ProvidedKeys :
       LET r == WithKey(r0, h)
           o == r.settings
           ref == deepcopy(BaseRef, w)
           seeded == coerce_seed(heap[BaseRef].seed)
           copied == [heap[BaseRef] EXCEPT !.seed = seeded.seed]
           merged == apply_overrides(copied, o)
       IN
       IF ~verify_api_key(h) THEN
         /\ Unauthorized(w, r)
         /\ UNCHANGED <<heap, loc>>
       ELSE
         /\ req' = [req EXCEPT ![w] = r]
         /\ started' = started + 1
         /\ trace' = [trace EXCEPT ![w] = <<>>]
         /\ IF ~seeded.ok THEN
              /\ raise_outside(w, 400, "settings.seed must be an integer.")
              /\ heap' = [heap EXCEPT ![ref] = heap[BaseRef]]
              /\ UNCHANGED loc
            ELSE
              /\ heap' = [heap EXCEPT ![ref] = merged]
              /\ loc' = [loc EXCEPT ![w] =
                           [NoLocals EXCEPT !.settings = ref,
                                            !.context = r.context]]
              /\ Goto(w, "dec_lock")
              /\ UNCHANGED resp
  /\ UNCHANGED <<MODEL, TOKENIZER, OPERATION_COUNTER, MODEL_LOCK, envVars,
                 inCodec, built, nextTicket, produced>>

\* line 337: with _MODEL_LOCK
decode_acquire(w) ==
  /\ pc[w] = "dec_lock"
  /\ Acquired(w, "dec_ensure")
  /\ UNCHANGED <<MODEL, TOKENIZER, OPERATION_COUNTER, envVars, heap, req,
                 resp, inCodec, built, started, produced>>

\* line 339
decode_ensure(w) ==
  /\ pc[w] = "dec_ensure"
  /\ ensure_model_loaded(w, "dec_ensure_tok", "dec_tokenize")
  /\ UNCHANGED <<OPERATION_COUNTER, envVars, heap, req, loc, inCodec,
                 started, nextTicket, produced>>

\* line 339, get_tokenizer of _ensure_model_loaded
decode_ensure_tokenizer(w) ==
  /\ pc[w] = "dec_ensure_tok"
  /\ ensure_get_tokenizer(w, "dec_tokenize")
  /\ UNCHANGED <<OPERATION_COUNTER, envVars, heap, req, loc, inCodec,
                 started, nextTicket, produced>>

\* mutant of NoTokens: an empty token sequence is let through
NoTokens_unchecked(token_ids) == FALSE

\* line 342: not token_ids
NoTokens(token_ids) == token_ids = <<>>

\* lines 341-343: tokenize the stego text; empty is a validation error
decode_tokenize(w) ==
  /\ pc[w] = "dec_tokenize"
  /\ \/ LET token_ids == Tokenize(req[w].stego_text) IN
          IF NoTokens(token_ids) THEN
            /\ raise_in_lock(w, 400, "Unable to tokenize stego text.")
            /\ Log(w, "raised")
            /\ UNCHANGED loc
          ELSE
            /\ loc' = [loc EXCEPT ![w].token_ids = token_ids]
            /\ Log(w, "tokenize")
            /\ Goto(w, "dec_hygiene")
            /\ UNCHANGED <<resp, MODEL_LOCK>>
     \/ /\ raise_in_lock(w, 500, "tokenizer failed")
        /\ Log(w, "raised")
        /\ UNCHANGED loc
  /\ UNCHANGED <<MODEL, TOKENIZER, OPERATION_COUNTER, envVars, heap, req,
                 inCodec, built, started, nextTicket, produced>>

\* lines 346-351
decode_hygiene(w) ==
  /\ pc[w] = "dec_hygiene"
  /\ apply_strategy(w, "dec_reload", "dec_call")
  /\ loc' = [loc EXCEPT ![w].observed = <<OPERATION_COUNTER>>]
  /\ UNCHANGED <<OPERATION_COUNTER, envVars, heap, req, inCodec,
                 started, nextTicket, produced>>

\* lines 347/351, second half of _reload_model
decode_reload(w) ==
  /\ pc[w] = "dec_reload"
  /\ reload_model_construct(w, "dec_reload_tok", "dec_call")
  /\ UNCHANGED <<OPERATION_COUNTER, envVars, heap, req, loc, inCodec,
                 started, nextTicket, produced>>

\* lines 347/351, get_tokenizer of _reload_model
decode_reload_tokenizer(w) ==
  /\ pc[w] = "dec_reload_tok"
  /\ reload_get_tokenizer(w, "dec_call")
  /\ UNCHANGED <<OPERATION_COUNTER, envVars, heap, req, loc, inCodec,
                 started, nextTicket, produced>>

\* line 353: decode_text is called
decode_call(w) ==
  /\ pc[w] = "dec_call"
  /\ CodecCall(w, "dec_ret")
  /\ UNCHANGED <<MODEL, TOKENIZER, OPERATION_COUNTER, MODEL_LOCK, envVars,
                 heap, req, resp, built, started, nextTicket, produced>>

\* line 353: decode_text returns the recovered bits, or raises
decode_return(w) ==
  /\ pc[w] = "dec_ret"
  /\ inCodec' = inCodec \ {w}
  /\ \/ \E r \in decode_text_results(w) :
          /\ loc' = [loc EXCEPT ![w].recovered_bits = r]
          /\ Log(w, "ret")
          /\ Goto(w, "dec_incr")
          /\ UNCHANGED <<resp, MODEL_LOCK>>
     \/ /\ raise_in_lock(w, 500, "decode_text failed")
        /\ Log(w, "raised")
        /\ UNCHANGED loc
  /\ UNCHANGED <<MODEL, TOKENIZER, OPERATION_COUNTER, envVars, heap, req,
                 built, started, nextTicket, produced>>

\* line 356
decode_increment(w) ==
  /\ pc[w] = "dec_incr"
  /\ Increment(w, "dec_release")
  /\ UNCHANGED <<MODEL, TOKENIZER, MODEL_LOCK, envVars, heap, req, loc, resp,
                 inCodec, built, started, nextTicket>>

\* end of the with block
decode_release(w) ==
  /\ pc[w] = "dec_release"
  /\ lock_release(w)
  /\ Log(w, "release")
  /\ Goto(w, "dec_post")
  /\ UNCHANGED <<MODEL, TOKENIZER, OPERATION_COUNTER, envVars, heap, req, loc,
                 resp, inCodec, built, started, nextTicket, produced>>

\* mutant of trim_recovered: the recovered bits are returned untrimmed
trim_recovered_whole(raw, expected_bits) == raw

\* lines 358-359: recovered_bits[: req.expected_bits]
trim_recovered(raw, expected_bits) ==
  IF IsNone(expected_bits) THEN raw
  ELSE SubSeq(raw, 1, Min(Len(raw), Val(expected_bits)))

\* lines 358-369: trim to expected_bits, convert, respond
decode_finish(w) ==
  /\ pc[w] = "dec_post"
  /\ LET raw == loc[w].recovered_bits
         recovered_bits == trim_recovered(raw, req[w].expected_bits)
         recovered_text ==
           IF recovered_bits # <<>> THEN bits_to_text(recovered_bits)
           ELSE <<>>
     IN
     /\ Goto(w, "done")
     /\ Respond(w, [code |-> 200,
                    recovered_bits |-> recovered_bits,
                    recovered_text |-> IF recovered_text # <<>>
                                       THEN <<recovered_text>> ELSE <<>>,
                    used_bits |-> Len(recovered_bits)])
  /\ UNCHANGED <<MODEL, TOKENIZER, OPERATION_COUNTER, MODEL_LOCK, envVars,
                 heap, req, loc, inCodec, trace, built, started, nextTicket,
                 produced>>

\* --------------------------------------------------------------- health
DEVICE == "cpu"

\* lines 392-398: the dict health builds; reading the deleted global
\* _MODEL raises NameError
health_response ==
  IF MODEL = Unbound THEN Error(500, "NameError")
  ELSE [code |-> 200, status |-> "ok", device |-> DEVICE,
        model_loaded |-> MODEL # None,
        reload_strategy |-> RELOAD_STRATEGY,
        operations_count |-> OPERATION_COUNTER]

\* lines 390-398: reads the globals, takes no lock
health(w) ==
  /\ Serving(w)
  /\ \E h \in ProvidedKeys :
       LET r == WithKey([kind |-> "health"], h) IN
       IF ~verify_api_key(h) THEN Unauthorized(w, r)
       ELSE
         /\ req' = [req EXCEPT ![w] = r]
         /\ started' = started + 1
         /\ trace' = [trace EXCEPT ![w] = <<>>]
         /\ Goto(w, "done")
         /\ Respond(w, health_response)
  /\ UNCHANGED <<MODEL, TOKENIZER, OPERATION_COUNTER, MODEL_LOCK, envVars,
                 heap, loc, inCodec, built, nextTicket, produced>>

\* -------------------------------------------------------- manual_reload
manual_reload_start(w) ==
  /\ Serving(w)
  /\ \E h \in ProvidedKeys :
       LET r == WithKey([kind |-> "reload"], h) IN
       IF ~verify_api_key(h) THEN Unauthorized(w, r)
       ELSE
         /\ req' = [req EXCEPT ![w] = r]
         /\ started' = started + 1
         /\ trace' = [trace EXCEPT ![w] = <<>>]
         /\ Goto(w, "rl_lock")
         /\ UNCHANGED resp
  /\ UNCHANGED <<MODEL, TOKENIZER, OPERATION_COUNTER, MODEL_LOCK, envVars,
                 heap, loc, inCodec, built, nextTicket, produced>>

\* mutant of manual_reload_acquire: the handler reloads without the lock
manual_reload_acquire_unlocked(w) ==
  /\ pc[w] = "rl_lock"
  /\ Log(w, "acquire")
  /\ Goto(w, "rl_discard")
  /\ UNCHANGED <<MODEL, TOKENIZER, OPERATION_COUNTER, MODEL_LOCK, envVars,
                 heap, req, loc, resp, inCodec, built, started, nextTicket,
                 produced>>

\* line 404: with _MODEL_LOCK
manual_reload_acquire(w) ==
  /\ pc[w] = "rl_lock"
  /\ Acquired(w, "rl_discard")
  /\ UNCHANGED <<MODEL, TOKENIZER, OPERATION_COUNTER, envVars, heap, req,
                 resp, inCodec, built, started, produced>>

\* line 405, first half of _reload_model
manual_reload_discard(w) ==
  /\ pc[w] = "rl_discard"
  /\ reload_model_discard(w, "rl_construct")
  /\ UNCHANGED <<OPERATION_COUNTER, envVars, heap, req, loc, inCodec,
                 started, nextTicket, produced>>

\* line 405, second half of _reload_model
manual_reload_construct(w) ==
  /\ pc[w] = "rl_construct"
  /\ reload_model_construct(w, "rl_construct_tok", "rl_release")
  /\ UNCHANGED <<OPERATION_COUNTER, envVars, heap, req, loc, inCodec,
                 started, nextTicket, produced>>

\* line 405, get_tokenizer of _reload_model
manual_reload_tokenizer(w) ==
  /\ pc[w] = "rl_construct_tok"
  /\ reload_get_tokenizer(w, "rl_release")
  /\ UNCHANGED <<OPERATION_COUNTER, envVars, heap, req, loc, inCodec,
                 started, nextTicket, produced>>

\* line 406: the lock is released and the acknowledgement returned
manual_reload_finish(w) ==
  /\ pc[w] = "rl_release"
  /\ lock_release(w)
  /\ Log(w, "release")
  /\ Goto(w, "done")
  /\ Respond(w, [code |-> 200, status |-> "reloaded"])
  /\ UNCHANGED <<MODEL, TOKENIZER, OPERATION_COUNTER, envVars, heap, req, loc,
                 inCodec, built, started, nextTicket, produced>>

\* --------------------------------------------------------- manual_reset
manual_reset_start(w) ==
  /\ Serving(w)
  /\ \E h \in ProvidedKeys :
       LET r == WithKey([kind |-> "reset"], h) IN
       IF ~verify_api_key(h) THEN Unauthorized(w, r)
       ELSE
         /\ req' = [req EXCEPT ![w] = r]
         /\ started' = started + 1
         /\ trace' = [trace EXCEPT ![w] = <<>>]
         /\ Goto(w, "rs_lock")
         /\ UNCHANGED resp
  /\ UNCHANGED <<MODEL, TOKENIZER, OPERATION_COUNTER, MODEL_LOCK, envVars,
                 heap, loc, inCodec, built, nextTicket, produced>>

\* line 412: with _MODEL_LOCK
manual_reset_acquire(w) ==
  /\ pc[w] = "rs_lock"
  /\ Acquired(w, "rs_reset")
  /\ UNCHANGED <<MODEL, TOKENIZER, OPERATION_COUNTER, envVars, heap, req,
                 resp, inCodec, built, started, produced>>

\* line 413
manual_reset_run(w) ==
  /\ pc[w] = "rs_reset"
  /\ reset_model_state(w, "rs_release")
  /\ UNCHANGED <<OPERATION_COUNTER, envVars, heap, req, loc, inCodec,
                 started, nextTicket, produced>>

\* line 414: the lock is released and the acknowledgement returned
manual_reset_finish(w) ==
  /\ pc[w] = "rs_release"
  /\ lock_release(w)
  /\ Log(w, "release")
  /\ Goto(w, "done")
  /\ Respond(w, [code |-> 200, status |-> "reset"])
  /\ UNCHANGED <<MODEL, TOKENIZER, OPERATION_COUNTER, envVars, heap, req, loc,
                 inCodec, built, started, nextTicket, produced>>

\* ------------------------------------------------------- worker threads
\* the response is sent and the worker thread goes back to the pool
Return(w) ==
  /\ pc[w] = "done"
  /\ Goto(w, "idle")
  /\ req' = [req EXCEPT ![w] = NoRequest]
  /\ loc' = [loc EXCEPT ![w] = NoLocals]
  /\ resp' = [resp EXCEPT ![w] = NoResponse]
  /\ trace' = [trace EXCEPT ![w] = <<>>]
  /\ heap' = [heap EXCEPT ![w] = NoSettings]
  /\ client' = IF scenario = "roundtrip" /\ req[w].kind = "encode"
                   /\ resp[w].code = 200
                THEN [request |-> req[w], response |-> resp[w]]
                ELSE client
  /\ UNCHANGED <<MODEL, TOKENIZER, OPERATION_COUNTER, MODEL_LOCK, cfgVars,
                 double, inCodec, built, started, nextTicket, produced>>

Next ==
  \E w \in Workers :
    \/ encode_start(w) \/ encode_acquire(w) \/ encode_ensure(w)
    \/ encode_ensure_tokenizer(w)
    \/ encode_hygiene(w) \/ encode_reload(w) \/ encode_reload_tokenizer(w)
    \/ encode_call(w)
    \/ encode_return(w) \/ encode_retry(w) \/ encode_call_retry(w)
    \/ encode_return_retry(w) \/ encode_increment(w) \/ encode_release(w)
    \/ encode_finish(w)
    \/ decode_start(w) \/ decode_acquire(w) \/ decode_ensure(w)
    \/ decode_ensure_tokenizer(w)
    \/ decode_tokenize(w) \/ decode_hygiene(w) \/ decode_reload(w)
    \/ decode_reload_tokenizer(w)
    \/ decode_call(w) \/ decode_return(w) \/ decode_increment(w)
    \/ decode_release(w) \/ decode_finish(w)
    \/ health(w)
    \/ manual_reload_start(w) \/ manual_reload_acquire(w)
    \/ manual_reload_discard(w) \/ manual_reload_construct(w)
    \/ manual_reload_tokenizer(w) \/ manual_reload_finish(w)
    \/ manual_reset_start(w) \/ manual_reset_acquire(w)
    \/ manual_reset_run(w) \/ manual_reset_finish(w)
    \/ Return(w)

Spec == Init /\ [][Next]_vars
SpecSequential == InitSequential /\ [][Next]_vars

\* a step of the request worker w is serving: the thread pool runs every
\* handler it was given, a free lock is handed to a waiting thread, and the
\* codec and the model provider return or raise
Progress(w) ==
  \/ encode_acquire(w) \/ encode_ensure(w) \/ encode_ensure_tokenizer(w)
  \/ encode_hygiene(w) \/ encode_reload(w) \/ encode_reload_tokenizer(w)
  \/ encode_call(w) \/ encode_return(w)
  \/ encode_retry(w) \/ encode_call_retry(w) \/ encode_return_retry(w)
  \/ encode_increment(w) \/ encode_release(w) \/ encode_finish(w)
  \/ decode_acquire(w) \/ decode_ensure(w) \/ decode_ensure_tokenizer(w)
  \/ decode_tokenize(w) \/ decode_hygiene(w) \/ decode_reload(w)
  \/ decode_reload_tokenizer(w) \/ decode_call(w)
  \/ decode_return(w) \/ decode_increment(w) \/ decode_release(w)
  \/ decode_finish(w)
  \/ manual_reload_acquire(w) \/ manual_reload_discard(w)
  \/ manual_reload_construct(w) \/ manual_reload_tokenizer(w)
  \/ manual_reload_finish(w)
  \/ manual_reset_acquire(w) \/ manual_reset_run(w)
  \/ manual_reset_finish(w)

\* the concurrent workload under a fair scheduler
SpecFair == Init /\ [][Next]_vars /\ \A w \in Workers : WF_vars(Progress(w))

\* the authentication workload: one client, every key configuration and
\* every header
SpecAuth == InitAuth /\ [][Next]_vars

\* the round-trip workload: encode and decode requests only; a decode
\* request follows an answered encode request, so its _ensure_model_loaded
\* finds both objects and never calls get_tokenizer
NextRoundTrip ==
  \E w \in Workers :
    \/ encode_start(w) \/ encode_acquire(w) \/ encode_ensure(w)
    \/ encode_ensure_tokenizer(w)
    \/ encode_hygiene(w) \/ encode_reload(w) \/ encode_reload_tokenizer(w)
    \/ encode_call(w)
    \/ encode_return(w) \/ encode_retry(w) \/ encode_call_retry(w)
    \/ encode_return_retry(w) \/ encode_increment(w) \/ encode_release(w)
    \/ encode_finish(w)
    \/ decode_start(w) \/ decode_acquire(w) \/ decode_ensure(w)
    \/ decode_tokenize(w) \/ decode_hygiene(w) \/ decode_reload(w)
    \/ decode_reload_tokenizer(w)
    \/ decode_call(w) \/ decode_return(w) \/ decode_increment(w)
    \/ decode_release(w) \/ decode_finish(w)
    \/ Return(w)

SpecRoundTrip == InitRoundTrip /\ [][NextRoundTrip]_vars

\* ------------------------------------------------- the helpers on their own
\* Each helper function is applied once to an argument drawn at startup; the
\* server is idle throughout.
SeqsUpTo(S, n) == UNION { [1..k -> S] : k \in 0..n }

\* seeds as config.py or a caller may hand them to _coerce_seed: None, ints,
\* byte strings and character strings (digits, blanks, signs, an
\* underscore, a letter, and the strings "abc" and "-5")
SeedChars == { 32, PLUS, MINUS, 50, 52, UNDERSCORE, 97 }
SeedInputs ==
  { SeedNone, SeedInt(0), SeedInt(7), SeedInt(256) }
  \cup { [t |-> "bytes", v |-> b] : b \in SeqsUpTo({0, 1, 255}, MaxSeedBytes) }
  \cup { [t |-> "str", v |-> x] : x \in SeqsUpTo(SeedChars, MaxSeedLen) }
  \cup { [t |-> "str", v |-> <<97, 98, 99>>], [t |-> "str", v |-> <<45, 53>>] }

\* texts, as sequences of code points (one of them above 255)
TextInputs == SeqsUpTo({0, 65, 66, 255, 256}, MaxTextLen)

\* bit strings: every one up to MaxBitLen bits, and two-character ones
\* followed by up to two more bits
BitInputs ==
  SeqsUpTo({0, 1}, MaxBitLen)
  \cup { text_to_bits(x) \o t : x \in { <<65, 66>>, <<255, 0>> },
                                t \in SeqsUpTo({0, 1}, 2) }

\* defaults as the handlers pass them to _apply_overrides (the seed already
\* coerced), and override objects with every field null or set
MergeDefaults ==
  { [b EXCEPT !.seed = coerce_seed(b.seed).seed] : b \in BaseSettingsSequential }
MergeOverrides ==
  { <<>> } \cup
  { <<[algo |-> a, temp |-> t, top_p |-> p, length |-> l, seed |-> sd]>> :
      a \in { <<>>, <<"sample">> }, t \in { <<>>, <<5>> },
      p \in { <<>>, <<90>> }, l \in { <<>>, <<1>> },
      sd \in { <<>>, <<0>>, <<7>> } }

Pending(f, a) == [fn |-> f, arg |-> a, returned |-> FALSE, result |-> <<>>]

InitFunctions ==
  /\ MODEL = None
  /\ TOKENIZER = None
  /\ OPERATION_COUNTER = 0
  /\ MODEL_LOCK = 0
  /\ scenario = "functions"
  /\ RELOAD_STRATEGY = "reset"
  /\ RELOAD_EVERY_N_OPS = DefaultInterval
  /\ \E b \in BaseSettingsConcurrent :
       /\ heap = [r \in {BaseRef} \cup Workers |->
                    IF r = BaseRef THEN b ELSE NoSettings]
       /\ base0 = b
  /\ pc = [w \in Workers |-> "idle"]
  /\ req = [w \in Workers |-> NoRequest]
  /\ loc = [w \in Workers |-> NoLocals]
  /\ resp = [w \in Workers |-> NoResponse]
  /\ inCodec = {}
  /\ trace = [w \in Workers |-> <<>>]
  /\ built = 0
  /\ started = 0
  /\ nextTicket = 0
  /\ produced = <<>>
  /\ double = <<>>
  /\ client = NoClient
  /\ API_KEY = <<DEFAULT_API_KEY>>
  /\ \/ \E x \in SeedInputs : call = Pending("coerce_seed", x)
     \/ \E d \in MergeDefaults : \E o \in MergeOverrides :
          call = Pending("apply_overrides", [settings |-> d, overrides |-> o])
     \/ \E x \in TextInputs : call = Pending("text_to_bits", x)
     \/ \E b \in BitInputs : call = Pending("bits_to_text", b)

serverVars ==
  <<MODEL, TOKENIZER, OPERATION_COUNTER, MODEL_LOCK, RELOAD_STRATEGY,
    RELOAD_EVERY_N_OPS, heap, pc, req, loc, resp, inCodec, trace, built,
    started, nextTicket, produced, base0, scenario, double, client,
    API_KEY>>

Returns(value) == call' = [call EXCEPT !.returned = TRUE, !.result = value]

call_coerce_seed ==
  /\ call.fn = "coerce_seed" /\ ~call.returned
  /\ Returns(coerce_seed(call.arg))
  /\ UNCHANGED serverVars

call_apply_overrides ==
  /\ call.fn = "apply_overrides" /\ ~call.returned
  /\ Returns(apply_overrides(call.arg.settings, call.arg.overrides))
  /\ UNCHANGED serverVars

call_text_to_bits ==
  /\ call.fn = "text_to_bits" /\ ~call.returned
  /\ Returns(text_to_bits(call.arg))
  /\ UNCHANGED serverVars

call_bits_to_text ==
  /\ call.fn = "bits_to_text" /\ ~call.returned
  /\ Returns(bits_to_text(call.arg))
  /\ UNCHANGED serverVars

NextFunctions ==
  \/ call_coerce_seed
  \/ call_apply_overrides
  \/ call_text_to_bits
  \/ call_bits_to_text

SpecFunctions == InitFunctions /\ [][NextFunctions]_vars

\* ================================================================ properties
Range(f) == { f[i] : i \in DOMAIN f }

EncodeCritical ==
  { "enc_ensure", "enc_ensure_tok", "enc_hygiene", "enc_reload",
    "enc_reload_tok", "enc_call", "enc_ret",
    "enc_retry", "enc_call2", "enc_ret2", "enc_incr", "enc_release" }
DecodeCritical ==
  { "dec_ensure", "dec_ensure_tok", "dec_tokenize", "dec_hygiene",
    "dec_reload", "dec_reload_tok", "dec_call",
    "dec_ret", "dec_incr", "dec_release" }
AdminCritical ==
  { "rl_discard", "rl_construct", "rl_construct_tok", "rl_release",
    "rs_reset", "rs_release" }
Critical == EncodeCritical \cup DecodeCritical \cup AdminCritical

\* C1: at most one encode/decode request is inside its hygiene/inference
\* cycle at a time, and no two codec invocations (the encode retry included)
\* overlap.
C1_MutualExclusion ==
  /\ Cardinality(inCodec) <= 1
  /\ \A w1, w2 \in Workers :
       (w1 # w2 /\ pc[w1] \in EncodeCritical \cup DecodeCritical)
         => pc[w2] \notin EncodeCritical \cup DecodeCritical

\* an encode retry is inside the codec while a decode request waits for the
\* lock
C1_Witness ==
  \E w1, w2 \in Workers :
    /\ pc[w1] = "enc_ret2" /\ w1 \in inCodec
    /\ pc[w2] = "dec_lock"

\* C2: while a manual reload or manual reset runs under the lock, no other
\* request (encode, decode or administrative) is between its lock
\* acquisition and its lock release.
C2_AdminExclusive ==
  \A w1, w2 \in Workers :
    (w1 # w2 /\ pc[w1] \in AdminCritical) => pc[w2] \notin Critical

\* a manual reload is between discard and construction while an encode
\* request waits for the lock
C2_Witness ==
  \E w1, w2 \in Workers :
    /\ pc[w1] = "rl_construct"
    /\ pc[w2] = "enc_lock"

\* C3: the lock is held only by a request that is still executing its
\* critical section; a request that has left it, on any exit path, does not
\* hold the lock.
C3_LockReleased ==
  /\ MODEL_LOCK \in {0} \cup Workers
  /\ \A w \in Workers : MODEL_LOCK = w => pc[w] \in Critical

\* a request whose codec call raised inside the critical section has
\* finished and the lock is free
C3_Witness ==
  \E w \in Workers :
    /\ pc[w] = "done"
    /\ "acquire" \in Range(trace[w])
    /\ resp[w].code = 500
    /\ resp[w].detail = "encode_text failed"
    /\ MODEL_LOCK = 0

\* a finished encode request that reached the codec
EncodeDone(w) ==
  /\ pc[w] = "done"
  /\ req[w].kind = "encode"
  /\ loc[w].returns # <<>>

\* C4: if the first encode_text call embeds at least the payload, exactly
\* one call is made and the length is left unchanged; if it embeds less and
\* the second call embeds enough, the request succeeds after exactly two
\* calls, the second made with length max(L + 16, payloadBits div 2), L
\* being the length of the first call.
C4_RetryLength ==
  \A w \in Workers :
    EncodeDone(w) =>
      LET P == Len(loc[w].message_bits)
          c == loc[w].calls
          r == loc[w].returns
          L == Val(c[1].settings.length)
      IN /\ r[1] >= P =>
              /\ Len(c) = 1
              /\ resp[w].code = 200
              /\ heap[loc[w].settings].length = <<L>>
              /\ resp[w].settings.length = <<L>>
         /\ (Len(r) = 2 /\ r[1] < P /\ r[2] >= P) =>
              /\ Len(c) = 2
              /\ resp[w].code = 200
              /\ Val(c[2].settings.length)
                   = (IF L + 16 >= P \div 2 THEN L + 16 ELSE P \div 2)

\* an encode request succeeded on its retry, and the retry length was half
\* the payload because that exceeds L + 16
C4_Witness ==
  \E w \in Workers :
    /\ EncodeDone(w)
    /\ resp[w].code = 200
    /\ Len(loc[w].calls) = 2
    /\ loc[w].returns[1] < Len(loc[w].message_bits)
    /\ Val(loc[w].calls[2].settings.length) = Len(loc[w].message_bits) \div 2
    /\ Val(loc[w].calls[2].settings.length)
         > Val(loc[w].calls[1].settings.length) + 16

\* C5: an encode request calls the codec at most twice and a decode request
\* at most once; when both encode calls embed less than the payload the
\* request ends with the capacity error 422 after exactly two calls.
C5_BoundedRetry ==
  \A w \in Workers :
    /\ req[w].kind = "encode" => Len(loc[w].calls) <= 2
    /\ req[w].kind = "decode" => Len(loc[w].calls) <= 1
    /\ (EncodeDone(w) /\ Len(loc[w].returns) = 2
          /\ loc[w].returns[1] < Len(loc[w].message_bits)
          /\ loc[w].returns[2] < Len(loc[w].message_bits))
         => (resp[w].code = 422 /\ Len(loc[w].calls) = 2)

\* an encode request failed with 422 after two short codec calls
C5_Witness ==
  \E w \in Workers :
    /\ EncodeDone(w)
    /\ resp[w].code = 422
    /\ Len(loc[w].calls) = 2
    /\ loc[w].returns[2] < Len(loc[w].message_bits)

\* C6: a successful encode response reports payload_bits = the length of
\* the message's bit string and embedded_bits = the count of the last codec
\* call, with embedded_bits >= payload_bits.
C6_NoPartialSuccess ==
  \A w \in Workers :
    (pc[w] = "done" /\ req[w].kind = "encode" /\ resp[w].code = 200) =>
      /\ resp[w].payload_bits = Len(text_to_bits(req[w].message))
      /\ resp[w].embedded_bits = loc[w].returns[Len(loc[w].returns)]
      /\ resp[w].embedded_bits >= resp[w].payload_bits

\* an encode request succeeded on its retry with more bits embedded than
\* the payload holds
C6_Witness ==
  \E w \in Workers :
    /\ EncodeDone(w)
    /\ resp[w].code = 200
    /\ Len(loc[w].returns) = 2
    /\ resp[w].embedded_bits > resp[w].payload_bits

\* the state part of C7: the k-th increment produced the value k, and the
\* increments happened in the order of the lock acquisitions
CounterLog ==
  /\ Len(produced) = OPERATION_COUNTER
  /\ \A i \in 1..Len(produced) :
       /\ produced[i][2] = i
       /\ i > 1 => produced[i - 1][1] < produced[i][1]

\* the step part of C7: the counter changes by +1 only, in a step of the
\* encode/decode request that holds the lock
CounterStep ==
  OPERATION_COUNTER' # OPERATION_COUNTER =>
    /\ OPERATION_COUNTER' = OPERATION_COUNTER + 1
    /\ MODEL_LOCK \in Workers
    /\ MODEL_LOCK' = MODEL_LOCK
    /\ pc[MODEL_LOCK] \in {"enc_incr", "dec_incr"}
    /\ pc'[MODEL_LOCK] \in {"enc_release", "dec_release"}

\* C7: the operation counter starts at 0, changes only by +1 in a step of
\* the request holding the lock, and the values produced are 1, 2, 3, ...
\* in the order in which the requests acquired the lock.
C7_CounterOrder ==
  /\ OPERATION_COUNTER = 0
  /\ []CounterLog
  /\ [][CounterStep]_vars

\* two requests have incremented the counter; the second still holds the
\* lock
C7_Witness ==
  /\ OPERATION_COUNTER = 2
  /\ \E w \in Workers :
       /\ pc[w] \in {"enc_release", "dec_release"}
       /\ MODEL_LOCK = w
       /\ produced[2] = <<loc[w].ticket, 2>>

\* position of the first occurrence of e in seq (0 when absent)
First(seq, e) ==
  IF e \in Range(seq)
  THEN CHOOSE i \in 1..Len(seq) :
         seq[i] = e /\ \A j \in 1..(i - 1) : seq[j] # e
  ELSE 0
Before(seq, e1, e2) == First(seq, e1) > 0 /\ First(seq, e1) < First(seq, e2)
IsCodecRequest(w) == req[w].kind \in {"encode", "decode"}
HygieneEvents ==
  { "reset", "reset_failed", "reload", "reloaded", "reload_failed" }

StrategyBehaviour ==
  \A w \in Workers :
    IsCodecRequest(w) =>
      /\ RELOAD_STRATEGY = "none" =>
           Range(trace[w]) \cap HygieneEvents = {}
      /\ (RELOAD_STRATEGY = "reset" /\ "codec" \in Range(trace[w])) =>
           Before(trace[w], "reset", "codec")
      /\ (RELOAD_STRATEGY = "reload" /\ "codec" \in Range(trace[w])) =>
           /\ Before(trace[w], "reload", "reloaded")
           /\ Before(trace[w], "reloaded", "codec")

\* C8: under strategy none no encode/decode request runs resetState or
\* reloadModel; under reset each runs resetState before its first codec
\* call; under reload each runs reloadModel before its first codec call;
\* the strategy is the same for the whole run.
C8_FixedStrategies ==
  /\ []StrategyBehaviour
  /\ [][RELOAD_STRATEGY' = RELOAD_STRATEGY]_vars

\* under strategy reload a decode request is inside the codec after its
\* reload
C8_Witness ==
  /\ RELOAD_STRATEGY = "reload"
  /\ \E w \in Workers :
       /\ pc[w] = "dec_ret"
       /\ Before(trace[w], "reloaded", "codec")

\* C9: under strategy periodic a request that reaches the codec has run
\* reloadModel before it exactly when the counter it observed inside the
\* lock is a multiple of RELOAD_EVERY_N_OPS; it runs it at most once, and
\* never runs resetState, not even before an encode retry.
C9_Periodic ==
  RELOAD_STRATEGY = "periodic" =>
    \A w \in Workers :
      IsCodecRequest(w) =>
        LET t == trace[w]
            trigger == Val(loc[w].observed) % RELOAD_EVERY_N_OPS = 0
        IN /\ Range(t) \cap {"reset", "reset_failed"} = {}
           /\ Cardinality({ i \in 1..Len(t) : t[i] = "reload" }) <= 1
           /\ (Range(t) \cap {"reload", "reloaded", "reload_failed"} # {}) =>
                (loc[w].observed # <<>> /\ trigger)
           /\ "codec" \in Range(t) =>
                /\ loc[w].observed # <<>>
                /\ "incr" \notin Range(t) =>
                     Val(loc[w].observed) = OPERATION_COUNTER
                /\ trigger <=> Before(t, "reloaded", "codec")

\* with interval 2, the request that observes the counter at 2 has reloaded
\* and is inside the codec
C9_Witness ==
  /\ RELOAD_STRATEGY = "periodic"
  /\ RELOAD_EVERY_N_OPS = 2
  /\ \E w \in Workers :
       /\ pc[w] = "enc_ret"
       /\ loc[w].observed = <<2>>
       /\ Before(trace[w], "reloaded", "codec")

\* the settings a request works with, from the defaults and its override
Effective(base, r) ==
  LET seeded == [base EXCEPT !.seed = coerce_seed(base.seed).seed]
      merged == apply_overrides(seeded, r.settings)
  IN IF r.kind = "encode"
        /\ (IsNone(merged.length) \/ Val(merged.length) <= 0)
     THEN [merged EXCEPT
             !.length = <<suggest_length(Len(text_to_bits(r.message)))>>]
     ELSE merged

Retried(w) == pc[w] = "enc_call2" \/ Len(loc[w].calls) = 2

\* C10: _BASE_SETTINGS keeps its startup value, and the settings of every
\* request are a private object whose value is determined by the startup
\* defaults and the request's own override (the length enlarged once the
\* retry has started).
C10_DefaultsImmutable ==
  /\ heap[BaseRef] = base0
  /\ \A w \in Workers :
       loc[w].settings # NoRef =>
         LET eff == Effective(base0, req[w])
             cur == heap[loc[w].settings]
         IN /\ loc[w].settings # BaseRef
            /\ \A w2 \in Workers \ {w} : loc[w2].settings # loc[w].settings
            /\ [cur EXCEPT !.length = eff.length] = eff
            /\ ~Retried(w) => cur = eff
            /\ Retried(w) =>
                 Val(cur.length) >= Val(eff.length) + 16

\* an encode request with a seed/top_p override went through the length
\* auto-suggestion and the retry enlargement while a decode request with a
\* length override is in flight, and the defaults are as at startup
C10_Witness ==
  /\ heap[BaseRef] = base0
  /\ IsNone(base0.length)
  /\ \E w1, w2 \in Workers :
       /\ pc[w1] = "done" /\ req[w1].kind = "encode"
       /\ resp[w1].code = 200
       /\ Len(loc[w1].calls) = 2
       /\ req[w1].settings = SeedAndTopP
       /\ req[w2].kind = "decode" /\ req[w2].settings = ShortLength
       /\ pc[w2] = "dec_lock"
       /\ heap[loc[w2].settings].length = <<1>>
       /\ heap[loc[w1].settings].length = <<48>>

\* ------------------------------------------------ the helpers on their own
Returned(f) == call.fn = f /\ call.returned

\* C11: the settings _apply_overrides returns have, for each of algo, temp,
\* top_p, length and seed, the override's value where the override sets the
\* field and the default's value where it is null; without an override
\* object they are the defaults; device is always the default's.
C11_SettingsMerge ==
  Returned("apply_overrides") =>
    LET d == call.arg.settings
        e == call.result
    IN /\ e.device = d.device
       /\ IF call.arg.overrides = <<>> THEN e = d
          ELSE LET o == call.arg.overrides[1] IN
            /\ e.algo = (IF o.algo = <<>> THEN d.algo ELSE o.algo[1])
            /\ e.temp = (IF o.temp = <<>> THEN d.temp ELSE o.temp[1])
            /\ e.top_p = (IF o.top_p = <<>> THEN d.top_p ELSE o.top_p[1])
            /\ e.length = (IF o.length = <<>> THEN d.length ELSE o.length)
            /\ e.seed = (IF o.seed = <<>> THEN d.seed
                         ELSE [t |-> "int", v |-> o.seed])

\* an override that sets top_p and seed only was merged into defaults with
\* a length: top_p and seed are the override's, the length the default's
C11_Witness ==
  /\ Returned("apply_overrides")
  /\ call.arg.settings.length = <<100>>
  /\ call.arg.overrides = <<[algo |-> <<>>, temp |-> <<>>, top_p |-> <<90>>,
                            length |-> <<>>, seed |-> <<7>>]>>
  /\ call.result.top_p = 90
  /\ call.result.seed = SeedInt(7)
  /\ call.result.length = <<100>>
  /\ call.result.temp = call.arg.settings.temp

RECURSIVE Pow(_, _)
Pow(b, n) == IF n = 0 THEN 1 ELSE b * Pow(b, n - 1)

RECURSIVE BigEndian(_)
\* the unsigned number a byte string denotes, most significant byte first
BigEndian(bs) ==
  IF bs = <<>> THEN 0
  ELSE Head(bs) * Pow(256, Len(bs) - 1) + BigEndian(Tail(bs))

Str(x) == [t |-> "str", v |-> x]
Ok(seed) == [ok |-> TRUE, seed |-> seed]

\* C12: _coerce_seed maps the integer 0 to 0, the string "42" to 42, the
\* empty byte string to 0, the bytes 01 00 to 256 and every byte string to
\* its big-endian unsigned value, None to None, and raises the validation
\* error (400) for the string "abc".
C12_SeedTable ==
  Returned("coerce_seed") =>
    LET a == call.arg
        r == call.result
    IN /\ a = SeedInt(0) => r = Ok(SeedInt(0))
       /\ a = Str(<<52, 50>>) => r = Ok(SeedInt(42))
       /\ a = [t |-> "bytes", v |-> <<>>] => r = Ok(SeedInt(0))
       /\ a = [t |-> "bytes", v |-> <<1, 0>>] => r = Ok(SeedInt(256))
       /\ a.t = "bytes" => r = Ok(SeedInt(BigEndian(a.v)))
       /\ a = SeedNone => r = Ok(SeedNone)
       /\ a = Str(<<97, 98, 99>>) => ~r.ok

\* the bytes 01 00 were coerced, to 256
C12_Witness ==
  /\ Returned("coerce_seed")
  /\ call.arg = [t |-> "bytes", v |-> <<1, 0>>]
  /\ call.result = Ok(SeedInt(256))

\* C13: for every input but None, _coerce_seed returns a non-negative
\* integer or raises the validation error; the empty string, a string of
\* blanks and "-5" in particular raise it. (The same input always gives the
\* same outcome: the outcome is a function of the input.)
C13_SeedNonNegativeOrError ==
  (Returned("coerce_seed") /\ call.arg # SeedNone) =>
    \/ ~call.result.ok
    \/ /\ call.result.seed.t = "int"
       /\ call.result.seed.v[1] >= 0

\* C14: for every text whose code points are all at most 255, _text_to_bits
\* returns 8 bits per character, all of them 0 or 1, and _bits_to_text maps
\* them back to the text.
C14_TextBitsRoundTrip ==
  (Returned("text_to_bits") /\ \A i \in DOMAIN call.arg : call.arg[i] <= 255)
    => /\ Len(call.result) = 8 * Len(call.arg)
       /\ \A i \in DOMAIN call.result : call.result[i] \in {0, 1}
       /\ bits_to_text(call.result) = call.arg

\* "AB" was converted, to 0100000101000010
C14_Witness ==
  /\ Returned("text_to_bits")
  /\ call.arg = <<65, 66>>
  /\ call.result = <<0, 1, 0, 0, 0, 0, 0, 1, 0, 1, 0, 0, 0, 0, 1, 0>>

\* the value of the i-th group of eight bits of b
GroupValue(b, i) ==
  LET k == 8 * (i - 1) IN
  128 * b[k + 1] + 64 * b[k + 2] + 32 * b[k + 3] + 16 * b[k + 4]
    + 8 * b[k + 5] + 4 * b[k + 6] + 2 * b[k + 7] + b[k + 8]

\* C15: for every bit string b, _bits_to_text returns floor(len(b) / 8)
\* characters, the i-th having as code point the value of bits 8i..8i+7,
\* and the same as for b without its trailing partial group.
C15_BitsToText ==
  Returned("bits_to_text") =>
    LET b == call.arg
        whole == SubSeq(b, 1, 8 * (Len(b) \div 8))
    IN /\ Len(call.result) = Len(b) \div 8
       /\ \A i \in DOMAIN call.result : call.result[i] = GroupValue(b, i)
       /\ bits_to_text(whole) = call.result

\* seventeen bits were converted: two characters, the last bit dropped;
\* seven bits were converted to the empty text
C15_Witness ==
  /\ Returned("bits_to_text")
  /\ \/ /\ call.arg = text_to_bits(<<65, 66>>) \o <<1>>
        /\ call.result = <<65, 66>>
     \/ /\ Len(call.arg) = 7
        /\ call.result = <<>>

\* ------------------------------------------------------------ round trip
\* a decode request of the round-trip client that was answered
Recovered(w) ==
  /\ scenario = "roundtrip"
  /\ req[w].kind = "decode"
  /\ pc[w] = "done"
  /\ resp[w].code = 200

\* C16: with the codec double, the decode of the stego text an encode of a
\* single-byte-character message returned, with the same context, the
\* settings of the encode response and expected_bits = payload_bits,
\* returns the message as recovered_text, in every round and under every
\* reload strategy; for "AB" payload_bits is 16.
C16_RoundTrip ==
  \A w \in Workers :
    Recovered(w) =>
      /\ resp[w].recovered_text = <<client.request.message>>
      /\ client.request.message = <<65, 66>> =>
           client.response.payload_bits = 16

\* ------------------------------------------------------ validation errors
EmptyEncode(w) == req[w].kind = "encode" /\ req[w].message = <<>>

\* the step in which worker w takes up a request
Accepts(w) == pc[w] = "idle" /\ pc'[w] # "idle"

\* an encode request with an empty message is answered 400 at once, without
\* the lock, the model or the codec
EmptyEncodeRejected ==
  \A w \in Workers :
    EmptyEncode(w) =>
      /\ pc[w] = "done"
      /\ resp[w] = Error(400, "Message must not be empty.")
      /\ trace[w] = <<>>
      /\ loc[w] = NoLocals
      /\ MODEL_LOCK # w
      /\ w \notin inCodec

\* the step that takes up such a request leaves the shared state alone
EmptyEncodeStep ==
  \A w \in Workers :
    (Accepts(w) /\ EmptyEncode(w)') =>
      UNCHANGED <<MODEL, TOKENIZER, OPERATION_COUNTER, MODEL_LOCK, heap,
                  built, nextTicket, produced, inCodec>>

\* C17: an encode request with an empty message fails with the validation
\* error (400) and has no effect on the shared state: it does not take the
\* lock, does not load, reset or reload the model, does not call the codec
\* and leaves the operation counter as it is.
C17_EmptyMessage == []EmptyEncodeRejected /\ [][EmptyEncodeStep]_vars

\* an empty message was rejected while another request holds the lock
C17_Witness ==
  \E w \in Workers :
    /\ EmptyEncode(w)
    /\ pc[w] = "done"
    /\ resp[w].code = 400
    /\ MODEL_LOCK \notin {0, w}
    /\ OPERATION_COUNTER = 1

EmptyDecode(w) ==
  req[w].kind = "decode" /\ Tokenize(req[w].stego_text) = <<>>

\* the tokenizer has returned for the request of worker w
Tokenized(w) ==
  /\ "ensure" \in Range(trace[w])
  /\ pc[w] # "dec_tokenize"
  /\ resp[w] # Error(500, "tokenizer failed")

\* C18: a decode request whose stego text tokenizes to no token fails with
\* the validation error (400); decode_text is not called for it, neither
\* _reset_model_state nor _reload_model is run for it, it does not increment
\* the operation counter, and the lock is released.
C18_EmptyTokens ==
  \A w \in Workers :
    EmptyDecode(w) =>
      /\ Range(trace[w]) \subseteq {"acquire", "ensure", "ensure_failed",
                                     "raised"}
      /\ loc[w].calls = <<>>
      /\ w \notin inCodec
      /\ \A i \in DOMAIN produced : produced[i][1] # loc[w].ticket
      /\ Tokenized(w) =>
           /\ pc[w] = "done"
           /\ resp[w] = Error(400, "Unable to tokenize stego text.")
           /\ MODEL_LOCK # w

\* under the reload strategy such a request loaded the model, was answered
\* 400 and released the lock: no reload was run and nothing was counted
C18_Witness ==
  \E w \in Workers :
    /\ EmptyDecode(w)
    /\ pc[w] = "done"
    /\ resp[w].code = 400
    /\ trace[w] = <<"acquire", "ensure", "raised">>
    /\ RELOAD_STRATEGY = "reload"
    /\ MODEL = 1
    /\ MODEL_LOCK = 0
    /\ OPERATION_COUNTER = 0

\* decode_text has returned for the decode request of worker w
CodecRecovered(w) ==
  /\ req[w].kind = "decode"
  /\ Tokenize(req[w].stego_text) # <<>>
  /\ "ret" \in Range(trace[w])

\* C19: a decode request with a non-empty token sequence does not fail
\* because of what decode_text returned: whatever bit string r it returned,
\* the response is a success whose recovered_bits are the first
\* min(len(r), expected_bits) bits of r (all of r without expected_bits),
\* whose used_bits is their number, and whose recovered_text is null when
\* there are fewer than 8 of them and _bits_to_text of them otherwise.
C19_ShortRecovery ==
  \A w \in Workers :
    CodecRecovered(w) =>
      /\ pc[w] \in {"dec_incr", "dec_release", "dec_post", "done"}
      /\ pc[w] = "done" =>
           LET r == loc[w].recovered_bits
               e == req[w].expected_bits
               n == IF e = <<>> THEN Len(r)
                    ELSE IF Len(r) <= e[1] THEN Len(r) ELSE e[1]
           IN /\ resp[w].code = 200
              /\ Len(resp[w].recovered_bits) = n
              /\ \A i \in 1..n : resp[w].recovered_bits[i] = r[i]
              /\ resp[w].used_bits = n
              /\ resp[w].recovered_text =
                   (IF n < 8 THEN <<>>
                    ELSE <<bits_to_text(resp[w].recovered_bits)>>)

\* decode_text returned three bits where sixteen were expected, and
\* seventeen where eight were expected: both requests succeeded
C19_Witness ==
  \E w \in Workers :
    /\ CodecRecovered(w)
    /\ pc[w] = "done"
    /\ resp[w].code = 200
    /\ \/ /\ loc[w].recovered_bits = <<0, 1, 0>>
          /\ req[w].expected_bits = <<16>>
          /\ resp[w].recovered_bits = <<0, 1, 0>>
          /\ resp[w].recovered_text = <<>>
          /\ resp[w].used_bits = 3
       \/ /\ Len(loc[w].recovered_bits) = 17
          /\ req[w].expected_bits = <<8>>
          /\ resp[w].recovered_text = << <<65>> >>
          /\ resp[w].used_bits = 8

\* ----------------------------------------------------------------- health
\* the model is present: neither None nor a deleted global
ModelPresent == MODEL \notin {None, Unbound}

\* the step in which worker w serves a health call
HealthCall(w) == Accepts(w) /\ req'[w].kind = "health"

HealthStep ==
  \A w \in Workers :
    HealthCall(w) =>
      /\ UNCHANGED <<MODEL, TOKENIZER, OPERATION_COUNTER, MODEL_LOCK, built,
                     nextTicket, inCodec>>
      /\ (\A w2 \in Workers : pc[w2] \notin Critical) =>
           /\ resp'[w].code = 200
           /\ resp'[w].model_loaded = ModelPresent
           /\ resp'[w].operations_count = OPERATION_COUNTER
           /\ resp'[w].reload_strategy = RELOAD_STRATEGY
      /\ health_response' = resp'[w]

\* C20: a health call takes no lock and changes neither the model, the
\* tokenizer nor the operation counter (it does not load an absent model);
\* called while no request is in a critical section it returns model_loaded
\* = true exactly when the model is present, operations_count = the counter
\* and the configured reload strategy; and a second health call right after
\* it returns the same result.
C20_HealthReadOnly == [][HealthStep]_vars

\* --------------------------------------------------------- authentication
\* worker w is serving, or has just answered, a request
HasRequest(w) == req[w].kind # "none"

\* a secret is configured: the key is a non-empty string
SecretConfigured == API_KEY # <<>> /\ API_KEY # <<"">>

\* the header of worker w's request carries the configured secret
KeyMatches(w) == req[w].provided_key = API_KEY

\* worker w's request was refused by the key check
Refused(w) == pc[w] = "done" /\ resp[w].code = 401

\* a request without the configured secret is answered 401 before its
\* handler runs; one with it is not answered 401
KeyChecked ==
  SecretConfigured =>
    \A w \in Workers :
      HasRequest(w) =>
        /\ ~KeyMatches(w) =>
             /\ Refused(w)
             /\ trace[w] = <<>>
             /\ loc[w] = NoLocals
             /\ MODEL_LOCK # w
             /\ w \notin inCodec
        /\ KeyMatches(w) => resp[w].code # 401

\* the step that takes up a request without the secret leaves the shared
\* state alone
RefusedStep ==
  SecretConfigured =>
    \A w \in Workers :
      (Accepts(w) /\ ~KeyMatches(w)') =>
        UNCHANGED <<MODEL, TOKENIZER, OPERATION_COUNTER, MODEL_LOCK, heap,
                    built, nextTicket, produced, inCodec, double>>

\* C21: with a secret configured, every encode, decode, health, manual
\* reload and manual reset call whose X-API-Key header is missing or differs
\* from the secret is answered 401 and has no effect (no lock, no model
\* load, reset or reload, no codec call, counter unchanged); a call with the
\* matching secret is never answered 401.
C21_Unauthorized == []KeyChecked /\ [][RefusedStep]_vars

\* after an authorized request loaded the model and was counted, requests of
\* every kind with a wrong or missing key have been refused, and the model
\* and the counter are as they were
C21_Witness ==
  /\ SecretConfigured
  /\ OPERATION_COUNTER = 1
  /\ MODEL = 1
  /\ MODEL_LOCK = 0
  /\ built = 2
  /\ started = 3
  /\ \E w \in Workers :
       /\ Refused(w)
       /\ req[w].kind = "reload"
       /\ req[w].provided_key \in { <<>>, <<"wrong">> }

\* the startup banner of line 427: 'Enabled' if API_KEY else 'Disabled'
BannerDisabled == API_KEY = <<>> \/ API_KEY = <<"">>

\* C22: when the configured key is None or the empty string (the banner
\* reports authentication as Disabled), no request is refused by the key
\* check, whatever header it carries.
C22_AuthDisabled ==
  BannerDisabled => \A w \in Workers : ~Refused(w)

\* ------------------------------------------------------ length suggestion
\* the least integer that is at least n / 3.6
CeilRate(n) == CHOOSE c \in 0..n : 36 * c >= 10 * n /\ 36 * (c - 1) < 10 * n

\* the length after the merge: the override's when it sets one, else the
\* default's
MergedLength(w) ==
  IF req[w].settings # <<>> /\ req[w].settings[1].length # <<>>
  THEN req[w].settings[1].length
  ELSE base0.length

\* C23: when the length is unset (or not positive) after the merge, the
\* first encode_text call is made with max(32, ceil(bitCount / 3.6) + 8),
\* bitCount being the payload's number of bits; when a positive length was
\* supplied, with that length. The suggested length is at least 32 and at
\* least the suggestion for every smaller bit count.
C23_SuggestedLength ==
  \A w \in Workers :
    (req[w].kind = "encode" /\ loc[w].calls # <<>>) =>
      LET P == Len(loc[w].message_bits)
          given == MergedLength(w)
          L == loc[w].calls[1].settings.length
      IN IF given = <<>> \/ given[1] <= 0
         THEN /\ L = <<(IF CeilRate(P) + 8 >= 32 THEN CeilRate(P) + 8 ELSE 32)>>
              /\ L[1] >= 32
              /\ \A m \in 0..P : suggest_length(m) <= L[1]
         ELSE L = given

\* a payload of 96 bits without a length: the first call is made with 35
\* tokens, more than the minimum
C23_Witness ==
  \E w \in Workers :
    /\ req[w].kind = "encode"
    /\ pc[w] = "enc_ret"
    /\ Len(loc[w].message_bits) = 96
    /\ MergedLength(w) = <<>>
    /\ loc[w].calls[1].settings.length = <<35>>

\* ------------------------------------------------- hygiene before the retry
IsHygiene(e) == e \in HygieneEvents

\* the hygiene steps worker w's request has run since its first codec call
\* returned
RetryHygiene(w) ==
  LET t == trace[w] IN
  SelectSeq(SubSeq(t, First(t, "ret") + 1, Len(t)), IsHygiene)

\* C24: before the retry call of encode_text the configured hygiene action
\* has been run again: _reset_model_state under strategy reset, _reload_model
\* under strategy reload, and nothing under none and periodic.
C24_RetryHygiene ==
  \A w \in Workers :
    (req[w].kind = "encode" /\ Retried(w)) =>
      RetryHygiene(w) =
        (IF RELOAD_STRATEGY = "reset" THEN <<"reset">>
         ELSE IF RELOAD_STRATEGY = "reload" THEN <<"reload", "reloaded">>
         ELSE <<>>)

\* ------------------------------------------------------- order of the steps
IsPrefix(s, t) == Len(s) <= Len(t) /\ SubSeq(t, 1, Len(s)) = s

\* the hygiene steps a strategy block may take, and those before a retry
HygieneBlocks == { <<>>, <<"reset">>, <<"reload", "reloaded">> }
RetryBlocks == { <<>>, <<"reset">> }

\* the complete sequences of steps of a request that reaches the codec
StepOrders(kind) ==
  IF kind = "encode" THEN
    { <<"acquire", "ensure">> \o h \o <<"codec", "ret", "incr", "release">> :
        h \in HygieneBlocks }
    \cup
    { <<"acquire", "ensure">> \o h \o <<"codec", "ret">> \o r
        \o <<"codec", "ret", "incr", "release">> :
        h \in HygieneBlocks, r \in RetryBlocks }
  ELSE
    { <<"acquire", "ensure", "tokenize">> \o h
        \o <<"codec", "ret", "incr", "release">> : h \in HygieneBlocks }

\* t is the beginning of such a sequence, or one cut short by a codec call
\* that raised
InOrder(kind, t) ==
  \E o \in StepOrders(kind) :
    \/ IsPrefix(t, o)
    \/ /\ t[Len(t)] = "raised"
       /\ t[Len(t) - 1] = "codec"
       /\ IsPrefix(SubSeq(t, 1, Len(t) - 1), o)

Present(x) == x \notin {None, Unbound}
Count(t, e) == Cardinality({ i \in DOMAIN t : t[i] = e })

\* C25: a request that reaches the codec takes its steps in the order lock
\* acquired, model ensured, hygiene, codec call(s), counter incremented, lock
\* released, response; every codec call is made with a model and a
\* tokenizer, which stay present during the call; the counter is incremented
\* only after the last codec call has returned.
C25_StepOrder ==
  \A w \in Workers :
    (IsCodecRequest(w) /\ "codec" \in Range(trace[w])) =>
      /\ InOrder(req[w].kind, trace[w])
      /\ \A i \in DOMAIN loc[w].calls :
           Present(loc[w].calls[i].model) /\ Present(loc[w].calls[i].tokenizer)
      /\ w \in inCodec => (Present(MODEL) /\ Present(TOKENIZER))
      /\ "incr" \in Range(trace[w]) =>
           /\ w \notin inCodec
           /\ Count(trace[w], "ret") = Count(trace[w], "codec")
           /\ pc[w] \notin {"enc_retry", "enc_call2", "enc_ret2"}
      /\ resp[w] # NoResponse =>
           /\ MODEL_LOCK # w
           /\ trace[w][Len(trace[w])] \in {"release", "raised"}

\* under strategy reload an encode request went through all the steps, the
\* retry included, while another request waits for the lock
C25_Witness ==
  \E w, w2 \in Workers :
    /\ req[w].kind = "encode"
    /\ pc[w] = "enc_release"
    /\ trace[w] = <<"acquire", "ensure", "reload", "reloaded", "codec", "ret",
                    "reset", "codec", "ret", "incr">>
    /\ pc[w2] \in {"dec_lock", "rl_lock"}

\* ------------------------------------------------------------ ensureLoaded
\* worker w enters _ensure_model_loaded in this step, or runs a later step
\* of it; it returned when the handler goes on
EnsureEnters(w) == pc[w] \in {"enc_ensure", "dec_ensure"} /\ pc'[w] # pc[w]
EnsureRuns(w) ==
  /\ pc[w] \in {"enc_ensure", "enc_ensure_tok", "dec_ensure", "dec_ensure_tok"}
  /\ pc'[w] # pc[w]
EnsureReturns(w) == EnsureRuns(w) /\ pc'[w] \in {"enc_hygiene", "dec_tokenize"}

EnsureStep ==
  \A w \in Workers :
    /\ EnsureRuns(w) => OPERATION_COUNTER' = OPERATION_COUNTER
    /\ EnsureReturns(w) => (Present(MODEL') /\ Present(TOKENIZER'))
    /\ (EnsureEnters(w) /\ Present(MODEL) /\ Present(TOKENIZER)) =>
         /\ EnsureReturns(w)
         /\ built' = built
         /\ MODEL' = MODEL
         /\ TOKENIZER' = TOKENIZER

\* C26: when _ensure_model_loaded returns, the model and the tokenizer are
\* both present; when both were present already it constructs nothing and
\* leaves the two objects and the counter as they are. (Hence a second call
\* right after a first one changes nothing.)
C26_EnsureIdempotent == [][EnsureStep]_vars

\* the second request found the model of the first one and went on with it
C26_Witness ==
  \E w \in Workers :
    /\ pc[w] \in {"enc_hygiene", "dec_tokenize"}
    /\ trace[w] = <<"acquire", "ensure">>
    /\ OPERATION_COUNTER = 1
    /\ MODEL = 1
    /\ TOKENIZER = 2
    /\ built = 2

\* -------------------------------------------------------------- resetState
\* worker w's request records the step e in this step
Logs(w, e) ==
  /\ Len(trace'[w]) = Len(trace[w]) + 1
  /\ trace'[w][Len(trace'[w])] = e

ResetStep ==
  \A w \in Workers :
    /\ (Logs(w, "reset") \/ Logs(w, "reset_failed")) =>
         UNCHANGED <<MODEL, TOKENIZER, built, OPERATION_COUNTER>>
    /\ (Logs(w, "reset") /\ MODEL = None) =>
         /\ MODEL' = None
         /\ health_response'.code = 200
         /\ health_response'.model_loaded = FALSE

\* C27: _reset_model_state neither replaces, constructs nor discards the
\* model or the tokenizer and does not change the operation counter; when
\* the model was None before it (a manual reset before any encode or decode)
\* it is None after it and health reports model_loaded = false.
C27_ResetKeepsModel == [][ResetStep]_vars

\* a manual reset ran before anything was loaded: nothing is loaded
C27_Witness ==
  \E w \in Workers :
    /\ req[w].kind = "reset"
    /\ pc[w] = "rs_release"
    /\ trace[w] = <<"acquire", "reset">>
    /\ MODEL = None
    /\ TOKENIZER = None
    /\ built = 0
    /\ health_response.model_loaded = FALSE

\* ------------------------------------------------------------- reloadModel
\* worker w's _reload_model gets its model in this step
ReloadGetsModel(w) ==
  /\ pc[w] \in {"enc_reload", "dec_reload", "rl_construct"}
  /\ pc'[w] \in {"enc_reload_tok", "dec_reload_tok", "rl_construct_tok"}

\* _reload_model constructs a model, then a tokenizer, and returns: the
\* model is the object constructed last before the tokenizer, the tokenizer
\* is constructed in the returning step, and both are present
ReloadedStep ==
  \A w \in Workers :
    /\ ReloadGetsModel(w) =>
         /\ Present(MODEL')
         /\ MODEL' > built /\ MODEL' # MODEL
         /\ built' = built + 1
         /\ TOKENIZER' = TOKENIZER
         /\ OPERATION_COUNTER' = OPERATION_COUNTER
    /\ Logs(w, "reloaded") =>
         /\ pc[w] \in {"enc_reload_tok", "dec_reload_tok", "rl_construct_tok"}
         /\ Present(MODEL') /\ Present(TOKENIZER')
         /\ MODEL' = MODEL /\ MODEL = built
         /\ TOKENIZER' > built /\ TOKENIZER' # TOKENIZER
         /\ MODEL' # TOKENIZER'
         /\ built' = built + 1
         /\ OPERATION_COUNTER' = OPERATION_COUNTER

\* a manual reload or manual reset request
IsAdminRequest(w) == req[w].kind \in {"reload", "reset"}

\* the administrative call of worker w was acknowledged
AdminDone(w) == IsAdminRequest(w) /\ pc[w] = "done" /\ resp[w].code = 200

\* an administrative request counts nothing, and however many went before
\* it, an acknowledged one leaves the lock free and, for a reload, the newest
\* model and tokenizer in place
AdminRepeatable ==
  \A w \in Workers :
    IsAdminRequest(w) =>
      /\ \A i \in DOMAIN produced : produced[i][1] # loc[w].ticket
      /\ OPERATION_COUNTER = Len(produced)
      /\ AdminDone(w) =>
           /\ MODEL_LOCK = 0
           /\ req[w].kind = "reload" =>
                /\ MODEL = built - 1 /\ TOKENIZER = built
                /\ health_response.code = 200
                /\ health_response.model_loaded
                /\ health_response.operations_count = Len(produced)

\* C28: when _reload_model returns (in a handler's strategy block or in a
\* manual reload) the model and the tokenizer are both present and newly
\* constructed, whatever they were before; a manual reload or manual reset
\* leaves the operation counter unchanged; after any number of acknowledged
\* administrative calls the service is in the same condition as after one:
\* lock free, counter as before and, for a reload, a fresh model loaded.
C28_ReloadFresh == []AdminRepeatable /\ [][ReloadedStep]_vars

\* the second manual reload in a row was acknowledged: the second pair of
\* objects is in place and nothing was counted
C28_Witness ==
  \E w \in Workers :
    /\ AdminDone(w)
    /\ req[w].kind = "reload"
    /\ started >= 2
    /\ built = 4
    /\ MODEL = 3
    /\ TOKENIZER = 4
    /\ OPERATION_COUNTER = 0

\* --------------------------------------------------------- model lifecycle
\* the positions between the `del` statements of _reload_model and its
\* return: before get_model and before get_tokenizer
ReloadWindow ==
  { "enc_reload", "enc_reload_tok", "dec_reload", "dec_reload_tok",
    "rl_construct", "rl_construct_tok" }
Reloading == \E w \in Workers : pc[w] \in ReloadWindow

\* a model was constructed at some time
Constructed == built > 0

\* the model is absent although no reload is under way: a failure of the
\* model provider left it so
FailureLeft == ~Present(MODEL) /\ ~Reloading

\* model and tokenizer are constructed in steps of encode, decode and manual
\* reload requests only
ConstructedByUse ==
  built' # built =>
    \E w \in Workers :
      /\ pc'[w] # pc[w]
      /\ req[w].kind \in {"encode", "decode", "reload"}

\* once constructed, the model is present in every state, unless the provider
\* failed
OnceLoadedStaysLoaded == (Constructed /\ ~FailureLeft) => Present(MODEL)

\* and health reports it
HealthStaysTrue ==
  \A w \in Workers :
    (HealthCall(w) /\ Constructed /\ ~FailureLeft) =>
      /\ resp'[w].code = 200
      /\ resp'[w].model_loaded

\* C29: _MODEL and _TOKENIZER are None at startup and are constructed only
\* in encode, decode and manual reload requests; once constructed, the model
\* is never absent in a state another request can observe, so health keeps
\* reporting model_loaded = true (unless the model provider failed).
C29_Lifecycle ==
  /\ MODEL = None /\ TOKENIZER = None
  /\ [][ConstructedByUse]_vars
  /\ []OnceLoadedStaysLoaded
  /\ [][HealthStaysTrue]_vars

\* C30: a health call made while another request is inside _reload_model,
\* between the discard and the reconstruction, returns a well-formed status
\* with a boolean model_loaded.
C30_HealthDuringReload ==
  [][\A w \in Workers :
       (HealthCall(w) /\ Reloading) =>
         /\ resp'[w].code = 200
         /\ resp'[w].model_loaded \in BOOLEAN]_vars

\* ------------------------------------------------------ provider failures
ProviderErrors ==
  { Error(500, "get_model failed"), Error(500, "get_tokenizer failed") }

\* worker w's request stopped in _ensure_model_loaded or in _reload_model
Unloaded(w) ==
  /\ pc[w] = "done"
  /\ trace[w] # <<>>
  /\ trace[w][Len(trace[w])] \in {"ensure_failed", "reload_failed"}

\* C31: a request in which get_model or get_tokenizer raises ends with an
\* upstream error and the lock released, and the service recovers: an encode,
\* decode or manual reload request stops in _ensure_model_loaded or
\* _reload_model only when the provider raised in that very request.
C31_Recovery ==
  \A w \in Workers :
    Unloaded(w) =>
      /\ resp[w].code = 500
      /\ MODEL_LOCK # w
      /\ resp[w] \in ProviderErrors

\* ------------------------------------------------------ what is counted
\* the number of increments made by the request worker w is serving
Counted(w) ==
  Cardinality({ i \in DOMAIN produced : produced[i][1] = loc[w].ticket })

\* C32: the operation counter is incremented exactly once by an encode
\* request whose codec calls returned (with or without a retry, and also
\* when it then fails with the capacity error) and by a decode request whose
\* codec call returned, and not at all by a request that ends with a
\* validation error, by one in which the codec or the model provider raised,
\* by health, by manual reload or by manual reset.
C32_CountedOnce ==
  /\ OPERATION_COUNTER = Len(produced)
  /\ \A i \in DOMAIN produced : produced[i][1] > 0
  /\ \A w \in Workers :
       /\ Counted(w) <= 1
       /\ (HasRequest(w) /\ ~IsCodecRequest(w)) => Counted(w) = 0
       /\ (IsCodecRequest(w) /\ pc[w] = "done") =>
            /\ resp[w].code \in {200, 400, 422, 500}
            /\ resp[w].code \in {200, 422} =>
                 /\ Counted(w) = 1
                 /\ Count(trace[w], "ret") = Len(loc[w].calls)
            /\ resp[w].code \in {400, 500} => Counted(w) = 0

\* an encode request that failed with the capacity error after its retry
\* was counted once, and the other worker's finished manual reload not at all
C32_Witness ==
  \E w, w2 \in Workers :
    /\ req[w].kind = "encode"
    /\ pc[w] = "done"
    /\ resp[w].code = 422
    /\ Len(loc[w].calls) = 2
    /\ Counted(w) = 1
    /\ OPERATION_COUNTER = 1
    /\ req[w2].kind = "reload"
    /\ pc[w2] = "done"
    /\ resp[w2].code = 200

\* -------------------------------------------------- spacing of the reloads
\* worker w's encode/decode request ran _reload_model in its strategy block
PolicyReloaded(w) == IsCodecRequest(w) /\ "reload" \in Range(trace[w])

\* C33: under strategy periodic with interval N every reload run by a
\* strategy block happens at a counter value that is a multiple of N, and no
\* two of them at the same counter value: two such reloads are at least N
\* counted operations apart, whatever the requests, failing ones included.
C33_PeriodicSpacing ==
  RELOAD_STRATEGY = "periodic" =>
    /\ \A w \in Workers :
         PolicyReloaded(w) =>
           Val(loc[w].observed) % RELOAD_EVERY_N_OPS = 0
    /\ \A w1, w2 \in Workers :
         (w1 # w2 /\ PolicyReloaded(w1) /\ PolicyReloaded(w2)) =>
           LET c1 == Val(loc[w1].observed)
               c2 == Val(loc[w2].observed)
           IN c1 - c2 >= RELOAD_EVERY_N_OPS \/ c2 - c1 >= RELOAD_EVERY_N_OPS

\* ------------------------------------------------------ context of the calls
\* the context string the request of worker w carries: an encode request
\* that omits the context stands for the fixed default
CarriedContext(w) ==
  IF req[w].kind = "decode" THEN req[w].context
  ELSE IF IsNone(req[w].context) THEN DEFAULT_CONTEXT
  ELSE Val(req[w].context)

\* C35: an encode request and a decode request that carry the same context
\* string call the codec with the same context, the string they carry, for
\* every context string, the empty string included; an encode request that
\* omits the context calls the codec with the fixed default context.
C35_SameContext ==
  \A w \in Workers :
    IsCodecRequest(w) =>
      \A i \in DOMAIN loc[w].calls :
        loc[w].calls[i].context = CarriedContext(w)

\* ------------------------------------------------- settings of the response
\* the five fields of a settings object that the encode response reports
Reported(st) ==
  [algo |-> st.algo, temp |-> st.temp, top_p |-> st.top_p,
   length |-> st.length, seed |-> st.seed]

\* the settings the last codec call of worker w's request was given
LastCallSettings(w) == loc[w].calls[Len(loc[w].calls)].settings

\* worker w's encode request was answered with a response body
Encoded(w) ==
  /\ req[w].kind = "encode"
  /\ pc[w] = "done"
  /\ resp[w].code = 200

\* C34: the settings of a successful encode response are the settings of the
\* codec call that produced the stego text (the merged algo, temp, top_p and
\* seed, and the length of the last call: suggested when none was given,
\* enlarged by the retry), and a decode request that passes them as its
\* override calls the codec with the same algo, temp, top_p, length and seed.
C34_SettingsEcho ==
  \A w \in Workers :
    Encoded(w) =>
      LET echo == DecReq(resp[w].stego_text, "ctx", <<resp[w].payload_bits>>,
                         <<ResponseSettings(resp[w])>>)
          asked == Effective(base0, req[w])
          retried == Len(loc[w].calls) = 2
      IN
      /\ resp[w].settings = Reported(LastCallSettings(w))
      /\ [resp[w].settings EXCEPT !.length = asked.length] = Reported(asked)
      /\ ~retried => resp[w].settings.length = asked.length
      /\ retried => Val(resp[w].settings.length) > Val(asked.length)
      /\ Val(resp[w].settings.length) > 0
      /\ resp[w].settings.seed.t = "int" => Val(resp[w].settings.seed.v) >= 0
      /\ Reported(Effective(base0, echo)) = Reported(LastCallSettings(w))

\* an encode request without a length embedded on its retry and was answered
\* with the suggested length enlarged by 16
C34_Witness ==
  \E w \in Workers :
    /\ Encoded(w)
    /\ Len(loc[w].calls) = 2
    /\ IsNone(req[w].settings)
    /\ heap[BaseRef].length = <<>>
    /\ resp[w].settings.length =
         <<suggest_length(resp[w].payload_bits) + 16>>

\* ------------------------------------------------------------- termination
LockWaits == { "enc_lock", "dec_lock", "rl_lock", "rs_lock" }
Waiting(w) == pc[w] \in LockWaits
Running(w) == pc[w] \notin {"idle", "done"}
Finished(w) ==
  /\ pc[w] = "done"
  /\ resp[w].code \in {200, 400, 422, 500}

\* the lock is held by a running request inside its with block, which is not
\* waiting for the lock, and a request waits only while another one holds it
\* or until the scheduler hands it the free lock
LockHeldByRunning ==
  /\ MODEL_LOCK # 0 =>
       /\ MODEL_LOCK \in Workers
       /\ pc[MODEL_LOCK] \in Critical
       /\ ~Waiting(MODEL_LOCK)
  /\ \A w \in Workers :
       Waiting(w) => (MODEL_LOCK = 0 => ENABLED Progress(w))

\* C36: under a fair scheduler, with a codec and a model provider that
\* return or raise, every encode, decode, manual reload and manual reset
\* request of a finite concurrent workload eventually finishes, with a
\* success, a validation error, a capacity error or an upstream error; no
\* request waits for the lock while no running request holds it, and the
\* holder of the lock never waits for it again.
C36_Termination ==
  /\ []LockHeldByRunning
  /\ \A w \in Workers : Running(w) ~> Finished(w)

\* one request holds the lock inside the codec while another waits for it
C36_Witness ==
  \E w1, w2 \in Workers :
    /\ MODEL_LOCK = w1 /\ w1 \in inCodec
    /\ Waiting(w2)
    /\ req[w2].kind \in {"reload", "reset"}
====
